---- MODULE Spec2Model ----
(***************************************************************************)
(* A model of the glasses-finder eligibility service (class GlassesService *)
(* of the refactored service file) and of the error-handling utilities.    *)
(*                                                                         *)
(* JavaScript values are modelled with their dynamic type, because the     *)
(* service tests the type of its arguments (Number.isInteger, typeof) and  *)
(* converts them to text when it builds cache keys and error messages.     *)
(* A JavaScript string is a sequence of one-character strings, so that     *)
(* trimming, concatenation and equality of texts are computed, not assumed.*)
(***************************************************************************)
EXTENDS Integers, Sequences, FiniteSets, TLC

VARIABLES cache, now, args, outcome, prev, _glassesData, ui, retry, form

vars == <<cache, now, args, outcome, prev, _glassesData, ui, retry, form>>

----------------------------------------------------------------------------
(* Bounds of the model *)

\* The largest number of entries the cache holds in the model.
MaxCacheSize == 2

\* The largest value of the millisecond clock read by new Date().
MaxClock == 1

\* The incomes of the wide input set include k * IncomeGridStep, k in 0..MaxIncomeGrid.
MaxIncomeGrid == 3

----------------------------------------------------------------------------
(* JavaScript values *)

JSInt(n) == [k |-> "int", n |-> n, s |-> <<>>]

JSNaN == [k |-> "nan", n |-> 0, s |-> <<>>]

JSStr(s) == [k |-> "str", n |-> 0, s |-> s]

JSUndefined == [k |-> "undefined", n |-> 0, s |-> <<>>]

DigitChars == <<"0", "1", "2", "3", "4", "5", "6", "7", "8", "9">>

RECURSIVE NatToStr(_)
NatToStr(n) ==
    IF n < 10 THEN <<DigitChars[n + 1]>>
    ELSE NatToStr(n \div 10) \o <<DigitChars[(n % 10) + 1]>>

\* Number.prototype.toString for the integers of the model.
IntToStr(n) == IF n < 0 THEN <<"-">> \o NatToStr(-n) ELSE NatToStr(n)

\* The text a template literal `${v}` produces for v.
TemplateString(v) ==
    CASE v.k = "int" -> IntToStr(v.n)
      [] v.k = "nan" -> <<"N", "a", "N">>
      [] v.k = "str" -> v.s
      [] v.k = "undefined" -> <<"u", "n", "d", "e", "f", "i", "n", "e", "d">>

\* Number.isInteger(v)
IsInteger(v) == v.k = "int"

WhiteSpace == {" ", "\t", "\n"}

RECURSIVE TrimStart(_)
TrimStart(s) ==
    IF s # <<>> /\ Head(s) \in WhiteSpace THEN TrimStart(Tail(s)) ELSE s

RECURSIVE TrimEnd(_)
TrimEnd(s) ==
    IF s # <<>> /\ s[Len(s)] \in WhiteSpace
    THEN TrimEnd(SubSeq(s, 1, Len(s) - 1))
    ELSE s

\* String.prototype.trim
Trim(s) == TrimEnd(TrimStart(s))

\* Array.prototype.join of a list of texts with a separator text.
RECURSIVE Join(_, _)
Join(parts, sep) ==
    IF parts = <<>> THEN <<>>
    ELSE IF Len(parts) = 1 THEN parts[1]
    ELSE parts[1] \o sep \o Join(Tail(parts), sep)

\* TRUE iff the text part occurs in the text whole.
Includes(whole, part) ==
    \E p \in 1..(Len(whole) - Len(part) + 1) :
        SubSeq(whole, p, p + Len(part) - 1) = part

----------------------------------------------------------------------------
(* Static tables of GlassesService *)

\* MEDICAID_INCOME_LIMITS[size], size in 1..8.
MEDICAID_INCOME_LIMITS ==
    <<20783, 28207, 35632, 43056, 50481, 57905, 65330, 72754>>

VALID_DC_ZIP_CODES ==
    { NatToStr(z) : z \in
        {20001, 20002, 20003, 20004, 20005, 20006, 20007, 20008,
         20009, 20010, 20011, 20012, 20015, 20016, 20017, 20018,
         20019, 20020, 20024, 20026, 20027, 20029, 20030, 20032,
         20036, 20037, 20052, 20053, 20056, 20057, 20064, 20066,
         20071, 20090, 20091, 20201, 20204, 20228, 20240, 20260} }

\* The entries of TIER_CONFIG in the order Object.entries yields them.  The
\* multiplier of ANY_INCOME is Infinity; the loop never multiplies with it.
TIER_CONFIG ==
    << [key |-> "MEDICAID_ELIGIBLE", multiplier |-> 1, infinite |-> FALSE,
        budgetRange |-> <<0, 50>>, tier |-> "medicaid_eligible",
        name |-> "Medicaid Eligible"],
       [key |-> "LOW_INCOME_GAP", multiplier |-> 2, infinite |-> FALSE,
        budgetRange |-> <<0, 100>>, tier |-> "low_income_gap",
        name |-> "Low-Income Gap"],
       [key |-> "MODERATE_INCOME", multiplier |-> 3, infinite |-> FALSE,
        budgetRange |-> <<50, 200>>, tier |-> "moderate_income",
        name |-> "Moderate Income"],
       [key |-> "ANY_INCOME", multiplier |-> 0, infinite |-> TRUE,
        budgetRange |-> <<0, 500>>, tier |-> "any_income",
        name |-> "Any Income"] >>

\* The resources of _initializeDCResources; a resource is identified by its name.
dcResources ==
    [ medicaid_providers |->
        <<"DC Medicaid Vision Benefits", "Martha's Table Eye Care">>,
      discount_programs |->
        <<"Warby Parker Pupils Project", "OneSight">>,
      local_stores |->
        <<"LensCrafters - Dupont Circle", "Pearle Vision - Columbia Heights">> ]

----------------------------------------------------------------------------
(* Input validation *)

\* validateDCZipCode(zipCode)
validateDCZipCode(zipCode) ==
    IF zipCode.k # "str" THEN FALSE
    ELSE Trim(zipCode.s) \in VALID_DC_ZIP_CODES

\* new Error(message): a plain Error, without field, code or status.
NewError(message) ==
    [class |-> "Error", message |-> message, field |-> "absent",
     code |-> "absent", status |-> "absent"]

HouseholdSizeMessage == <<"Household size must be between 1 and 15 people">>

AnnualIncomeMessage == <<"Annual income must be a positive number">>

ZipCodeMessage(zipCode) ==
    <<"Invalid D.C. zip code: ">> \o TemplateString(zipCode)
        \o <<". Must be a valid D.C. zip code (e.g., 20001, 20009, 20036)">>

\* _validateInputs: the error it throws, or no error.
_validateInputs(householdSize, annualIncome, zipCode) ==
    LET e1 == IF \/ ~IsInteger(householdSize)
                 \/ householdSize.n < 1
                 \/ householdSize.n > 15
              THEN <<HouseholdSizeMessage>> ELSE <<>>
        e2 == IF ~IsInteger(annualIncome) \/ annualIncome.n < 0
              THEN <<AnnualIncomeMessage>> ELSE <<>>
        e3 == IF ~validateDCZipCode(zipCode)
              THEN <<ZipCodeMessage(zipCode)>> ELSE <<>>
        errors == e1 \o e2 \o e3
    IN  IF Len(errors) > 0
        THEN [threw |-> TRUE, error |-> NewError(Join(errors, <<";", " ">>))]
        ELSE [threw |-> FALSE]

----------------------------------------------------------------------------
(* Tier determination and resources *)

Min(a, b) == IF a <= b THEN a ELSE b

\* Mutant of WithMedicaidLimit: the two ends of the budget range swapped.
WithMedicaidLimitSwapped(config, medicaidLimit) ==
    [tier |-> config.tier, name |-> config.name,
     budgetRange |-> <<config.budgetRange[2], config.budgetRange[1]>>,
     multiplier |-> config.multiplier,
     infinite |-> config.infinite, medicaidLimit |-> medicaidLimit]

\* { ...config, medicaidLimit }
WithMedicaidLimit(config, medicaidLimit) ==
    [tier |-> config.tier, name |-> config.name,
     budgetRange |-> config.budgetRange, multiplier |-> config.multiplier,
     infinite |-> config.infinite, medicaidLimit |-> medicaidLimit]

\* Mutant of TierLoop: no return after the loop, the tier is undefined.
RECURSIVE TierLoopNoDefault(_, _, _)
TierLoopNoDefault(idx, annualIncome, medicaidLimit) ==
    IF idx > Len(TIER_CONFIG)
    THEN [tier |-> "undefined", name |-> "undefined", budgetRange |-> <<>>,
          multiplier |-> 0, infinite |-> FALSE, medicaidLimit |-> medicaidLimit]
    ELSE LET config == TIER_CONFIG[idx]
         IN  IF config.key = "ANY_INCOME"
             THEN TierLoopNoDefault(idx + 1, annualIncome, medicaidLimit)
             ELSE IF annualIncome <= medicaidLimit * config.multiplier
                  THEN WithMedicaidLimit(config, medicaidLimit)
                  ELSE TierLoopNoDefault(idx + 1, annualIncome, medicaidLimit)

\* Mutant of TierLoop: the threshold is exclusive (< instead of <=).
RECURSIVE TierLoopStrict(_, _, _)
TierLoopStrict(idx, annualIncome, medicaidLimit) ==
    IF idx > Len(TIER_CONFIG)
    THEN WithMedicaidLimit(TIER_CONFIG[4], medicaidLimit)
    ELSE LET config == TIER_CONFIG[idx]
         IN  IF config.key = "ANY_INCOME"
             THEN TierLoopStrict(idx + 1, annualIncome, medicaidLimit)
             ELSE IF annualIncome < medicaidLimit * config.multiplier
                  THEN WithMedicaidLimit(config, medicaidLimit)
                  ELSE TierLoopStrict(idx + 1, annualIncome, medicaidLimit)

\* Mutant of TierLoop: the comparison is the wrong way round (>= instead of <=).
RECURSIVE TierLoopFlipped(_, _, _)
TierLoopFlipped(idx, annualIncome, medicaidLimit) ==
    IF idx > Len(TIER_CONFIG)
    THEN WithMedicaidLimit(TIER_CONFIG[4], medicaidLimit)
    ELSE LET config == TIER_CONFIG[idx]
         IN  IF config.key = "ANY_INCOME"
             THEN TierLoopFlipped(idx + 1, annualIncome, medicaidLimit)
             ELSE IF annualIncome >= medicaidLimit * config.multiplier
                  THEN WithMedicaidLimit(config, medicaidLimit)
                  ELSE TierLoopFlipped(idx + 1, annualIncome, medicaidLimit)

\* The loop of _determineTier from entry idx of TIER_CONFIG on, and the
\* return after the loop.
RECURSIVE TierLoop(_, _, _)
TierLoop(idx, annualIncome, medicaidLimit) ==
    IF idx > Len(TIER_CONFIG)
    THEN WithMedicaidLimit(TIER_CONFIG[4], medicaidLimit)
    ELSE LET config == TIER_CONFIG[idx]
         IN  IF config.key = "ANY_INCOME"
             THEN TierLoop(idx + 1, annualIncome, medicaidLimit)
             ELSE IF annualIncome <= medicaidLimit * config.multiplier
                  THEN WithMedicaidLimit(config, medicaidLimit)
                  ELSE TierLoop(idx + 1, annualIncome, medicaidLimit)

\* Mutant of _determineTier: the household size is capped at 7 instead of 8.
DetermineTierCap7(annualIncome, householdSize) ==
    LET medicaidLimit == MEDICAID_INCOME_LIMITS[Min(householdSize, 7)]
    IN  TierLoop(1, annualIncome, medicaidLimit)

\* _determineTier(annualIncome, householdSize), both integers.
_determineTier(annualIncome, householdSize) ==
    LET medicaidLimit == MEDICAID_INCOME_LIMITS[Min(householdSize, 8)]
    IN  TierLoop(1, annualIncome, medicaidLimit)

\* Mutant of _getRelevantResources: the medicaid providers are also listed
\* for the low_income_gap tier.
GetRelevantResourcesGap(tier) ==
    LET allResources == dcResources.discount_programs \o dcResources.local_stores
    IN  IF tier \in {"medicaid_eligible", "low_income_gap"}
        THEN dcResources.medicaid_providers \o allResources
        ELSE allResources

\* _getRelevantResources(tier)
_getRelevantResources(tier) ==
    LET allResources == dcResources.discount_programs \o dcResources.local_stores
    IN  IF tier = "medicaid_eligible"
        THEN dcResources.medicaid_providers \o allResources
        ELSE allResources

----------------------------------------------------------------------------
(* assessEligibility, clearCache and the clock *)

EligibilityPrefix ==
    <<"e", "l", "i", "g", "i", "b", "i", "l", "i", "t", "y", "-">>

\* `eligibility-${householdSize}-${annualIncome}-${zipCode}`
EligibilityCacheKey(householdSize, annualIncome, zipCode) ==
    EligibilityPrefix \o TemplateString(householdSize) \o <<"-">>
        \o TemplateString(annualIncome) \o <<"-">> \o TemplateString(zipCode)

\* The object assessEligibility builds on a cache miss with valid inputs.
NewEligibility(householdSize, annualIncome, zipCode, assessedAt) ==
    LET tierConfig == _determineTier(annualIncome.n, householdSize.n)
        resources == _getRelevantResources(tierConfig.tier)
    IN  [tier |-> tierConfig.tier,
         tierName |-> tierConfig.name,
         budgetRange |-> tierConfig.budgetRange,
         householdSize |-> householdSize,
         annualIncome |-> annualIncome,
         zipCode |-> zipCode,
         medicaidLimit |-> tierConfig.medicaidLimit,
         resources |-> resources,
         assessedAt |-> assessedAt]

NoOutcome == [kind |-> "none"]

Returned(value) == [kind |-> "returned", value |-> value]

Threw(error) == [kind |-> "threw", error |-> error]

EmptyCache == [key \in {} |-> NoOutcome]

\* this._cache.set(key, value)
CacheSet(c, key, value) ==
    [x \in (DOMAIN c) \cup {key} |-> IF x = key THEN value ELSE c[x]]

\* One call assessEligibility(householdSize, annualIncome, zipCode).
assessEligibility(householdSize, annualIncome, zipCode) ==
    LET cacheKey == EligibilityCacheKey(householdSize, annualIncome, zipCode)
        v == _validateInputs(householdSize, annualIncome, zipCode)
        eligibility == NewEligibility(householdSize, annualIncome, zipCode, now)
    IN  /\ args' = [householdSize |-> householdSize,
                    annualIncome |-> annualIncome,
                    zipCode |-> zipCode]
        /\ IF cacheKey \in DOMAIN cache
           THEN /\ outcome' = Returned(cache[cacheKey])
                /\ UNCHANGED cache
           ELSE IF v.threw
           THEN /\ outcome' = Threw(v.error)
                /\ UNCHANGED cache
           ELSE /\ Cardinality(DOMAIN cache) < MaxCacheSize
                /\ outcome' = Returned(eligibility)
                /\ cache' = CacheSet(cache, cacheKey, eligibility)
        /\ UNCHANGED <<now, _glassesData, ui, retry, form>>

\* clearCache()
clearCache ==
    /\ cache' = EmptyCache
    /\ UNCHANGED <<now, args, outcome, prev, _glassesData, ui, retry, form>>

\* Time passes: the value new Date() reads grows.
Tick ==
    /\ now < MaxClock
    /\ now' = now + 1
    /\ UNCHANGED <<cache, args, outcome, prev, _glassesData, ui, retry, form>>

----------------------------------------------------------------------------
(* Error classes and errorHandler.handleError *)

\* new ValidationError(message, field)
NewValidationError(message, field) ==
    [class |-> "ValidationError", message |-> message, field |-> field,
     code |-> "absent", status |-> "absent"]

\* errorHandler.handleError(error): the errorInfo it returns.
handleError(error) ==
    LET default == <<"An unexpected error occurred. Please try again.">>
    IN  IF error.class = "ValidationError"
        THEN [message |-> error.message, type |-> "warning",
              code |-> "VALIDATION_ERROR", field |-> error.field,
              status |-> "absent"]
        ELSE IF error.class = "ServiceError"
        THEN [message |-> IF error.message # <<>> THEN error.message
                          ELSE <<"Service temporarily unavailable. Please try again later.">>,
              type |-> "error",
              code |-> IF error.code \in {"absent", "null"}
                       THEN "SERVICE_ERROR" ELSE error.code,
              field |-> "absent", status |-> "absent"]
        ELSE IF error.class = "NetworkError"
        THEN [message |-> <<"Network connection error. Please check your internet connection.">>,
              type |-> "error", code |-> "NETWORK_ERROR",
              field |-> "absent", status |-> error.status]
        ELSE [message |-> IF error.message # <<>> THEN error.message ELSE default,
              type |-> "error", code |-> "UNKNOWN_ERROR",
              field |-> "absent", status |-> "absent"]

----------------------------------------------------------------------------
(* The catalog and the recommendations *)

SquareStyle == <<"s", "q", "u", "a", "r", "e">>

RectangularStyle == <<"r", "e", "c", "t", "a", "n", "g", "u", "l", "a", "r">>

RoundStyle == <<"r", "o", "u", "n", "d">>

\* The items of rawData in their order, with the fields the service and the
\* components read.  _createGlassesItem freezes every item.
_initializeGlassesData ==
    << [name |-> "Felix", numeric_price |-> 95,
        frame_style |-> SquareStyle, material |-> "Acetate"],
       [name |-> "Hardy", numeric_price |-> 95,
        frame_style |-> RectangularStyle, material |-> "Acetate"],
       [name |-> "Percey", numeric_price |-> 95,
        frame_style |-> RoundStyle, material |-> "Metal"],
       [name |-> "Chamberlain", numeric_price |-> 145,
        frame_style |-> RectangularStyle, material |-> "Titanium"],
       [name |-> "Rafael", numeric_price |-> 145,
        frame_style |-> RoundStyle, material |-> "Stainless Steel"],
       [name |-> "Durand", numeric_price |-> 45,
        frame_style |-> SquareStyle, material |-> "Acetate"],
       [name |-> "Burke", numeric_price |-> 35,
        frame_style |-> RectangularStyle, material |-> "Plastic"],
       [name |-> "Caldwell", numeric_price |-> 25,
        frame_style |-> RoundStyle, material |-> "Plastic"] >>

\* glasses.numeric_price >= min && glasses.numeric_price <= max
InPriceRange(glasses, min, max) ==
    glasses.numeric_price >= min /\ glasses.numeric_price <= max

\* FilterByPrice with the maximum excluded.
FilterByPriceBelowMax(glasses, min, max) ==
    SelectSeq(glasses, LAMBDA g : g.numeric_price >= min /\ g.numeric_price < max)

\* Array.prototype.filter with the price test: a new array, in the old order.
FilterByPrice(glasses, min, max) ==
    SelectSeq(glasses, LAMBDA g : InPriceRange(g, min, max))

\* InsertByPrice with g put ahead of the items of its own price.
InsertByPriceAheadOfTies(sorted, g) ==
    LET behind == { x \in 0..Len(sorted) :
                      \A y \in 1..x : sorted[y].numeric_price < g.numeric_price }
        at == CHOOSE x \in behind : \A y \in behind : y <= x
    IN  SubSeq(sorted, 1, at) \o <<g>> \o SubSeq(sorted, at + 1, Len(sorted))

\* One step of the stable sort with the comparator a.numeric_price -
\* b.numeric_price: g goes behind every item that does not cost more.
InsertByPrice(sorted, g) ==
    LET behind == { x \in 0..Len(sorted) :
                      \A y \in 1..x : sorted[y].numeric_price <= g.numeric_price }
        at == CHOOSE x \in behind : \A y \in behind : y <= x
    IN  SubSeq(sorted, 1, at) \o <<g>> \o SubSeq(sorted, at + 1, Len(sorted))

\* Array.prototype.sort((a, b) => a.numeric_price - b.numeric_price), which
\* the language defines to be stable.
RECURSIVE SortByPrice(_)
SortByPrice(glasses) ==
    IF glasses = <<>> THEN <<>>
    ELSE InsertByPrice(SortByPrice(SubSeq(glasses, 1, Len(glasses) - 1)),
                       glasses[Len(glasses)])

\* SliceFromStart that leaves the last item out.
SliceWithoutLast(s, end) == SubSeq(s, 1, Min(end, Len(s)) - 1)

\* Array.prototype.slice(0, end)
SliceFromStart(s, end) == SubSeq(s, 1, Min(end, Len(s)))

\* The number of items of topRecommendations at most: slice(0, 10).
TopRecommendationsCap == 10

PriorityMessages ==
    [medicaid_eligible |-> "You may qualify for free glasses through D.C. Medicaid!",
     low_income_gap |-> "You're in the coverage gap",
     moderate_income |-> "You have moderate income flexibility",
     any_income |-> "You have budget flexibility"]

\* messages[tier] || messages['any_income']
_getPriorityMessage(tier) ==
    IF tier \in DOMAIN PriorityMessages
    THEN PriorityMessages[tier]
    ELSE PriorityMessages["any_income"]

\* `recommendations-${eligibility.tier}-${eligibility.budgetRange.join('-')}`
RecommendationsCacheKey(eligibility) ==
    <<"recommendations-", eligibility.tier, "-">>
        \o Join([x \in DOMAIN eligibility.budgetRange |->
                    IntToStr(eligibility.budgetRange[x])], <<"-">>)

\* The object getPersonalizedRecommendations builds on a cache miss.
NewRecommendations(eligibility, glassesData, generatedAt) ==
    LET budgetMin == eligibility.budgetRange[1]
        budgetMax == eligibility.budgetRange[2]
        suitableGlasses ==
            SortByPrice(FilterByPrice(glassesData, budgetMin, budgetMax))
    IN  [tier |-> eligibility.tier,
         tierName |-> eligibility.tierName,
         budgetRange |->
            <<"$">> \o IntToStr(budgetMin) \o <<"-", "$">> \o IntToStr(budgetMax),
         totalOptions |-> Len(suitableGlasses),
         topRecommendations |->
            SliceFromStart(suitableGlasses, TopRecommendationsCap),
         allRecommendations |-> suitableGlasses,
         priorityMessage |-> _getPriorityMessage(eligibility.tier),
         generatedAt |-> generatedAt]

\* !eligibility || !eligibility.budgetRange, for an eligibility that is
\* undefined or an object whose budgetRange, when present, is an array.
LacksBudgetRange(eligibility) ==
    "budgetRange" \notin DOMAIN eligibility

\* One call getPersonalizedRecommendations(eligibility).
getPersonalizedRecommendations(eligibility) ==
    /\ args' = [eligibility |-> eligibility]
    /\ IF LacksBudgetRange(eligibility)
       THEN /\ outcome' = Threw(NewError(<<"Invalid eligibility data provided">>))
            /\ UNCHANGED cache
       ELSE LET cacheKey == RecommendationsCacheKey(eligibility)
                recommendations ==
                    NewRecommendations(eligibility, _glassesData, now)
            IN  IF cacheKey \in DOMAIN cache
                THEN /\ outcome' = Returned(cache[cacheKey])
                     /\ UNCHANGED cache
                ELSE /\ Cardinality(DOMAIN cache) < MaxCacheSize
                     /\ outcome' = Returned(recommendations)
                     /\ cache' = CacheSet(cache, cacheKey, recommendations)
    /\ UNCHANGED <<now, _glassesData, ui, retry, form>>

----------------------------------------------------------------------------
(* The service under arbitrary callers: arguments of any JavaScript type *)

Str(n) == JSStr(NatToStr(n))

HouseholdInputs == {JSInt(0), JSInt(4), JSInt(16), Str(4)}

IncomeInputs == {JSInt(-1), JSInt(43056), Str(43056), JSNaN}

ZipInputs ==
    {Str(20001), JSStr(NatToStr(20001) \o <<" ">>), Str(99999), JSInt(20001)}

NoArgs ==
    [householdSize |-> JSUndefined, annualIncome |-> JSUndefined,
     zipCode |-> JSUndefined]

\* No earlier call is on record.
NoCall == [kind |-> "none"]

\* No component is mounted.
Unmounted == [component |-> "none"]

\* No withRetry call has been made.
NotRetrying == [pc |-> "idle"]

\* No form uses the validation hook.
NoForm == [pc |-> "none"]

Init ==
    /\ cache = EmptyCache
    /\ now = 0
    /\ args = NoArgs
    /\ outcome = NoOutcome
    /\ prev = NoCall
    /\ _glassesData = _initializeGlassesData
    /\ ui = Unmounted
    /\ retry = NotRetrying
    /\ form = NoForm

Assess ==
    /\ \E h \in HouseholdInputs, i \in IncomeInputs, z \in ZipInputs :
           assessEligibility(h, i, z)
    /\ UNCHANGED prev

Next == Assess \/ clearCache \/ Tick

Spec == Init /\ [][Next]_vars

----------------------------------------------------------------------------
(* The classifier on a fresh service: one call, then a second call that     *)
(* differs from the first in the income only or in the household size only. *)
(* prev records the first call and its outcome.                             *)

TierHouseholds == 0..16

\* Every threshold of every household size and the dollar above it, a grid
\* of round incomes, and a negative income.
TierIncomes ==
    { m * MEDICAID_INCOME_LIMITS[size] + d :
        size \in 1..8, m \in 1..3, d \in {0, 1} }
    \cup { g * 100000 : g \in 0..MaxIncomeGrid }
    \cup { -1 }

TierZips == {Str(20001), Str(99999)}

FirstCall ==
    /\ outcome.kind = "none"
    /\ \E h \in TierHouseholds, i \in TierIncomes, z \in TierZips :
           assessEligibility(JSInt(h), JSInt(i), z)
    /\ UNCHANGED prev

SecondCall ==
    /\ outcome.kind # "none"
    /\ prev.kind = "none"
    /\ \/ \E i \in TierIncomes :
              assessEligibility(args.householdSize, JSInt(i), args.zipCode)
       \/ \E h \in TierHouseholds :
              assessEligibility(JSInt(h), args.annualIncome, args.zipCode)
    /\ prev' = [kind |-> "call", args |-> args, outcome |-> outcome]

NextClassifier == FirstCall \/ SecondCall

SpecClassifier == Init /\ [][NextClassifier]_vars

----------------------------------------------------------------------------
(* Properties of the classifier *)

Tiers == {"medicaid_eligible", "low_income_gap", "moderate_income", "any_income"}

\* The order medicaid_eligible < low_income_gap < moderate_income < any_income.
TierRank(tier) ==
    CASE tier = "medicaid_eligible" -> 1
      [] tier = "low_income_gap" -> 2
      [] tier = "moderate_income" -> 3
      [] tier = "any_income" -> 4

\* The arguments a are a household size in 1..15, an integer income >= 0 and
\* a zip code of the allow-list.
ValidArgs(a) ==
    /\ a.householdSize.k = "int" /\ a.householdSize.n \in 1..15
    /\ a.annualIncome.k = "int" /\ a.annualIncome.n >= 0
    /\ a.zipCode.k = "str" /\ a.zipCode.s \in VALID_DC_ZIP_CODES

\* The medicaid limit of the household size h.
LimitOf(h) == MEDICAID_INCOME_LIMITS[IF h > 8 THEN 8 ELSE h]

\* The condition of tier t on income i with medicaid limit L.
TierCondition(t, i, L) ==
    CASE t = "medicaid_eligible" -> i <= L
      [] t = "low_income_gap" -> L < i /\ i <= 2 * L
      [] t = "moderate_income" -> 2 * L < i /\ i <= 3 * L
      [] t = "any_income" -> i > 3 * L

\* The last call was made, with valid arguments.
ValidCall == outcome.kind # "none" /\ ValidArgs(args)

\* The first of two calls is on record, and both had valid arguments.
ValidPair == ValidCall /\ prev.kind = "call" /\ ValidArgs(prev.args)

C3_MonotonicInIncome ==
    (ValidPair /\ prev.args.householdSize = args.householdSize) =>
        /\ prev.outcome.kind = "returned"
        /\ outcome.kind = "returned"
        /\ prev.outcome.value.tier \in Tiers
        /\ outcome.value.tier \in Tiers
        /\ (prev.args.annualIncome.n <= args.annualIncome.n) =>
               TierRank(prev.outcome.value.tier) <= TierRank(outcome.value.tier)
        /\ (args.annualIncome.n <= prev.args.annualIncome.n) =>
               TierRank(outcome.value.tier) <= TierRank(prev.outcome.value.tier)

\* Two calls for the same household size, the income raised by one dollar
\* across a threshold: the tier rises from moderate_income to any_income.
C3_Witness ==
    /\ ValidPair
    /\ prev.args.householdSize = args.householdSize
    /\ args.annualIncome.n = prev.args.annualIncome.n + 1
    /\ prev.outcome.kind = "returned" /\ outcome.kind = "returned"
    /\ prev.outcome.value.tier = "moderate_income"
    /\ outcome.value.tier = "any_income"

BudgetOfTier(tier) ==
    CASE tier = "medicaid_eligible" -> <<0, 50>>
      [] tier = "low_income_gap" -> <<0, 100>>
      [] tier = "moderate_income" -> <<50, 200>>
      [] tier = "any_income" -> <<0, 500>>

\* C5: the budget range of every assessment result is determined by its tier
\* alone (medicaid_eligible [0,50], low_income_gap [0,100], moderate_income
\* [50,200], any_income [0,500]) and its minimum is at most its maximum.
C5_BudgetRangeByTier ==
    outcome.kind = "returned" =>
        /\ outcome.value.tier \in Tiers
        /\ outcome.value.budgetRange = BudgetOfTier(outcome.value.tier)
        /\ outcome.value.budgetRange[1] <= outcome.value.budgetRange[2]

\* A moderate_income result, the one tier whose range does not start at 0.
C5_Witness ==
    /\ outcome.kind = "returned"
    /\ outcome.value.tier = "moderate_income"
    /\ outcome.value.budgetRange = <<50, 200>>

\* The set of the elements of the sequence s.
Range(s) == { s[x] : x \in DOMAIN s }

\* The sequence s starts with the sequence p.
StartsWith(s, p) == Len(s) >= Len(p) /\ SubSeq(s, 1, Len(p)) = p

\* C6: the resources of a result start with the medicaid-provider list iff the
\* tier is medicaid_eligible; for the three other tiers they are exactly the
\* discount programs followed by the local stores, without medicaid provider.
C6_MedicaidProvidersGated ==
    outcome.kind = "returned" =>
        LET r == outcome.value.resources
            shared == dcResources.discount_programs \o dcResources.local_stores
        IN  /\ StartsWith(r, dcResources.medicaid_providers)
                <=> (outcome.value.tier = "medicaid_eligible")
            /\ outcome.value.tier = "medicaid_eligible" =>
                   r = dcResources.medicaid_providers \o shared
            /\ outcome.value.tier # "medicaid_eligible" =>
                   /\ r = shared
                   /\ Range(r) \cap Range(dcResources.medicaid_providers) = {}

\* A medicaid_eligible result with the providers first, then a low_income_gap
\* result with the four shared resources only.
C6_Witness ==
    /\ prev.kind = "call"
    /\ prev.outcome.kind = "returned"
    /\ prev.outcome.value.tier = "medicaid_eligible"
    /\ Len(prev.outcome.value.resources) = 6
    /\ outcome.kind = "returned"
    /\ outcome.value.tier = "low_income_gap"
    /\ Len(outcome.value.resources) = 4

----------------------------------------------------------------------------
(* Properties of the error handling *)

\* The household size is not an integer in 1..15.
BadHouseholdSize(a) ==
    ~(a.householdSize.k = "int" /\ a.householdSize.n \in 1..15)

\* The annual income is not a non-negative integer.
BadAnnualIncome(a) ==
    ~(a.annualIncome.k = "int" /\ a.annualIncome.n >= 0)

\* The zip code is not a string of the allow-list.
BadZipCode(a) ==
    ~(a.zipCode.k = "str" /\ a.zipCode.s \in VALID_DC_ZIP_CODES)

\* C7: assessEligibility fails and returns no result whenever householdSize
\* is not an integer in 1..15 or annualIncome is not a non-negative integer,
\* whatever the other arguments are.
C7_InvalidNumbersFail ==
    (outcome.kind # "none" /\ (BadHouseholdSize(args) \/ BadAnnualIncome(args)))
        => outcome.kind = "threw"

\* C8: assessEligibility accepts a zip code only if the string is a member of
\* the allow-list (exact membership, no normalisation); for every non-member
\* it fails with an error whose message includes the rejected value,
\* whatever the household size and the income are.
C8_ZipExactMembership ==
    outcome.kind # "none" =>
        /\ outcome.kind = "returned" => ~BadZipCode(args)
        /\ BadZipCode(args) =>
               /\ outcome.kind = "threw"
               /\ Includes(outcome.error.message, TemplateString(args.zipCode))

\* The messages of the constraints the arguments a violate.
ViolatedMessages(a) ==
    (IF BadHouseholdSize(a) THEN {HouseholdSizeMessage} ELSE {})
    \cup (IF BadAnnualIncome(a) THEN {AnnualIncomeMessage} ELSE {})
    \cup (IF ~validateDCZipCode(a.zipCode) THEN {ZipCodeMessage(a.zipCode)} ELSE {})

\* C9: when several inputs are invalid in the same call, assessEligibility
\* fails with a single error that lists every violated constraint.
C9_AllViolationsListed ==
    (outcome.kind # "none" /\ Cardinality(ViolatedMessages(args)) >= 2) =>
        /\ outcome.kind = "threw"
        /\ \A m \in ViolatedMessages(args) : Includes(outcome.error.message, m)

\* C10: every failure of assessEligibility caused by invalid input is a
\* ValidationError carrying the offending field, which handleError classifies
\* as VALIDATION_ERROR with its field.
C10_ValidationErrorKind ==
    outcome.kind = "threw" =>
        /\ outcome.error.class = "ValidationError"
        /\ outcome.error.field \notin {"absent", "null"}
        /\ handleError(outcome.error).code = "VALIDATION_ERROR"
        /\ handleError(outcome.error).field = outcome.error.field

----------------------------------------------------------------------------
(* Recommendations: getPersonalizedRecommendations under callers that pass  *)
(* assessment results, objects with other budget ranges, objects without a  *)
(* budgetRange, and nothing.                                                *)

\* An assessment result of each tier, as assessEligibility returns it for a
\* household of one.
TierEligibilities ==
    { NewEligibility(JSInt(1), JSInt(i), Str(20001), 0) :
        i \in {20783, 20784, 41567, 62350} }

\* Ranges whose ends are prices of the catalog, whose ends lie between
\* prices, and one whose minimum is above its maximum.
CustomBudgetRanges == {<<50, 100>>, <<45, 95>>, <<26, 94>>, <<100, 50>>}

CustomEligibilities ==
    { [tier |-> "any_income", tierName |-> "Any Income", budgetRange |-> r] :
        r \in CustomBudgetRanges }

\* Eligibility objects that lack a budgetRange: undefined, and an object
\* with the other fields only.
MalformedEligibilities ==
    { JSUndefined, [tier |-> "any_income", tierName |-> "Any Income"] }

EligibilityInputs ==
    TierEligibilities \cup CustomEligibilities \cup MalformedEligibilities

Recommend ==
    /\ \E e \in EligibilityInputs : getPersonalizedRecommendations(e)
    /\ UNCHANGED prev

NextRecommend == Recommend \/ clearCache \/ Tick

SpecRecommend == Init /\ [][NextRecommend]_vars

\* The last call was getPersonalizedRecommendations and it returned a result.
RecommendationsReturned ==
    "eligibility" \in DOMAIN args /\ outcome.kind = "returned"

\* A catalog with the prices 25, 35, 45, 65, 85, 95 and 145, in that order.
ExampleCatalog ==
    << [name |-> "Caldwell", numeric_price |-> 25,
        frame_style |-> RoundStyle, material |-> "Plastic"],
       [name |-> "Burke", numeric_price |-> 35,
        frame_style |-> RectangularStyle, material |-> "Plastic"],
       [name |-> "Durand", numeric_price |-> 45,
        frame_style |-> SquareStyle, material |-> "Acetate"],
       [name |-> "Haskell", numeric_price |-> 65,
        frame_style |-> RoundStyle, material |-> "Acetate"],
       [name |-> "Welty", numeric_price |-> 85,
        frame_style |-> SquareStyle, material |-> "Acetate"],
       [name |-> "Felix", numeric_price |-> 95,
        frame_style |-> SquareStyle, material |-> "Acetate"],
       [name |-> "Chamberlain", numeric_price |-> 145,
        frame_style |-> RectangularStyle, material |-> "Titanium"] >>

\* The prices of a list of items, in the order of the list.
PricesOf(glasses) == [x \in DOMAIN glasses |-> glasses[x].numeric_price]

\* C11: allRecommendations holds exactly the catalog items whose price p
\* satisfies min <= p <= max for the budget range [min, max] of the
\* eligibility passed in, each of them once: no item outside the range and
\* no item of the range missing.  On a catalog with the prices 25, 35, 45,
\* 65, 85, 95, 145 the range [50, 100] gives the prices 65, 85, 95.
C11_ExactlyTheItemsInRange ==
    /\ RecommendationsReturned =>
         LET min == args.eligibility.budgetRange[1]
             max == args.eligibility.budgetRange[2]
             all == outcome.value.allRecommendations
         IN  /\ \A x \in DOMAIN all :
                   /\ min <= all[x].numeric_price
                   /\ all[x].numeric_price <= max
                   /\ \E c \in DOMAIN _glassesData : _glassesData[c] = all[x]
             /\ \A c \in DOMAIN _glassesData :
                   (min <= _glassesData[c].numeric_price
                      /\ _glassesData[c].numeric_price <= max)
                   => Cardinality({ x \in DOMAIN all : all[x] = _glassesData[c] }) = 1
    /\ PricesOf(NewRecommendations(
            [tier |-> "any_income", tierName |-> "Any Income",
             budgetRange |-> <<50, 100>>],
            ExampleCatalog, 0).allRecommendations) = <<65, 85, 95>>

\* A result for the range [45, 95], both ends of which are prices of the
\* catalog: the item of 45 and the three items of 95.
C11_Witness ==
    /\ RecommendationsReturned
    /\ args.eligibility.budgetRange = <<45, 95>>
    /\ Len(outcome.value.allRecommendations) = 4

\* The names of a list of items, in the order of the list.
NamesOf(glasses) == [x \in DOMAIN glasses |-> glasses[x].name]

\* C12: allRecommendations is sorted by price ascending, and items of equal
\* price keep the relative order they have in the catalog; the three items
\* priced 95 appear in the order Felix, Hardy, Percey.
C12_SortedByPriceStable ==
    RecommendationsReturned =>
        LET all == outcome.value.allRecommendations
            CatalogIndex(g) ==
                CHOOSE c \in DOMAIN _glassesData : _glassesData[c] = g
            at95 == SelectSeq(all, LAMBDA g : g.numeric_price = 95)
        IN  /\ \A x, y \in DOMAIN all :
                  x < y => all[x].numeric_price <= all[y].numeric_price
            /\ \A x, y \in DOMAIN all :
                  (x < y /\ all[x].numeric_price = all[y].numeric_price)
                  => CatalogIndex(all[x]) < CatalogIndex(all[y])
            /\ at95 # <<>> => NamesOf(at95) = <<"Felix", "Hardy", "Percey">>

\* The result of the range [0, 100]: the sort moves the three cheap items,
\* which the catalog lists last, ahead of the three items of 95, which keep
\* their catalog order.
C12_Witness ==
    /\ RecommendationsReturned
    /\ NamesOf(outcome.value.allRecommendations)
         = <<"Caldwell", "Burke", "Durand", "Felix", "Hardy", "Percey">>

\* The catalog followed by the example catalog: fifteen items.
LongCatalog == _initializeGlassesData \o ExampleCatalog

\* C13: in every recommendation result topRecommendations is the first
\* min(10, n) items of allRecommendations in the same order and totalOptions
\* is n, the length of allRecommendations.  The catalog has eight items; on
\* a catalog of fifteen the cap leaves the first ten.
C13_TopIsPrefixOfAll ==
    /\ RecommendationsReturned =>
         LET all == outcome.value.allRecommendations
             top == outcome.value.topRecommendations
             n == Len(all)
         IN  /\ Len(top) = (IF n < 10 THEN n ELSE 10)
             /\ \A x \in DOMAIN top : top[x] = all[x]
             /\ outcome.value.totalOptions = n
    /\ LET long == NewRecommendations(
                       [tier |-> "any_income", tierName |-> "Any Income",
                        budgetRange |-> <<0, 500>>], LongCatalog, 0)
       IN  /\ long.totalOptions = 15
           /\ Len(long.allRecommendations) = 15
           /\ Len(long.topRecommendations) = 10
           /\ \A x \in 1..10 :
                 long.topRecommendations[x] = long.allRecommendations[x]

\* The result of the any-income tier, range [0, 500]: all eight items.
C13_Witness ==
    /\ RecommendationsReturned
    /\ outcome.value.totalOptions = 8
    /\ Len(outcome.value.topRecommendations) = 8

\* The budgetRange of the eligibility passed in is absent, or its minimum
\* is above its maximum.
BudgetRangeAbsentOrMalformed ==
    /\ "eligibility" \in DOMAIN args
    /\ \/ LacksBudgetRange(args.eligibility)
       \/ args.eligibility.budgetRange[1] > args.eligibility.budgetRange[2]

\* C14: getPersonalizedRecommendations fails with a ServiceError, and
\* returns no result, whenever the budgetRange of the eligibility is absent
\* or malformed (its minimum above its maximum).
C14_MalformedRangeIsServiceError ==
    BudgetRangeAbsentOrMalformed =>
        /\ outcome.kind = "threw"
        /\ outcome.error.class = "ServiceError"

----------------------------------------------------------------------------
(* Repeated assessments: every call is kept in prev when the next one is    *)
(* made, so that two consecutive calls can be compared.                     *)

\* A household size as a number and as the text of that number, incomes at
\* and above a threshold and a negative one, a zip code of the allow-list.
RepeatHouseholds == {JSInt(4), Str(4)}

RepeatIncomes == {JSInt(43056), JSInt(43057), JSInt(-1)}

RepeatZips == {Str(20001)}

AssessAgain ==
    /\ \E h \in RepeatHouseholds, i \in RepeatIncomes, z \in RepeatZips :
           assessEligibility(h, i, z)
    /\ prev' = [kind |-> "call", args |-> args, outcome |-> outcome]

NextRepeat == AssessAgain \/ clearCache \/ Tick

SpecRepeat == Init /\ [][NextRepeat]_vars

\* The last two calls of assessEligibility had identical, valid arguments.
RepeatedValidCall ==
    /\ prev.kind = "call"
    /\ prev.outcome.kind # "none"
    /\ prev.args = args
    /\ ValidArgs(args)

\* C15: two calls of assessEligibility with identical valid arguments yield
\* structurally equal results, every field equal, whether the second call
\* is served from the cache or computed again (after clearCache).
C15_Idempotent ==
    RepeatedValidCall =>
        /\ prev.outcome.kind = "returned"
        /\ outcome.kind = "returned"
        /\ outcome.value = prev.outcome.value

\* The uncached classifier on the arguments a: validation, then the tier
\* and what follows from it.
Classify(a) ==
    LET v == _validateInputs(a.householdSize, a.annualIncome, a.zipCode)
    IN  IF v.threw THEN Threw(v.error)
        ELSE Returned(NewEligibility(a.householdSize, a.annualIncome, a.zipCode, 0))

\* C16: the assessment cache is transparent.  After any sequence of
\* assessEligibility and clearCache calls, a call has the outcome of the
\* uncached classifier on its arguments: it fails when they fail
\* validation (so no cache hit happens for them) and otherwise returns the
\* same tier, budget range, medicaid limit and resources; and no entry of
\* the cache belongs to a call that failed.
C16_CacheTransparent ==
    outcome.kind # "none" =>
        LET plain == Classify(args)
        IN  /\ outcome.kind = plain.kind
            /\ outcome.kind = "returned" =>
                 /\ outcome.value.tier = plain.value.tier
                 /\ outcome.value.budgetRange = plain.value.budgetRange
                 /\ outcome.value.medicaidLimit = plain.value.medicaidLimit
                 /\ outcome.value.resources = plain.value.resources
            /\ outcome.kind = "threw" =>
                 EligibilityCacheKey(args.householdSize, args.annualIncome,
                                     args.zipCode) \notin DOMAIN cache

----------------------------------------------------------------------------
(* The read accessors of the catalog and the statistics.  An array handed   *)
(* to the caller is described by its items and by which array object it is: *)
(* the array this._glassesData itself, or an array of its own.  The items   *)
(* are frozen objects; only arrays can be changed by the caller.            *)

\* A newly built array: a spread copy, or the result of filter.
NewArray(items) == [items |-> items, is |-> "own"]

\* The array object this._glassesData.
GlassesDataArray == [items |-> _glassesData, is |-> "_glassesData"]

\* The value of getAllGlasses(): return this._glassesData, uncopied.
AllGlassesUncopied == GlassesDataArray

\* The value of getAllGlasses(): [...this._glassesData]
AllGlassesCopy == NewArray(_glassesData)

\* getAllGlasses()
getAllGlasses ==
    /\ args' = [operation |-> "getAllGlasses"]
    /\ outcome' = Returned(AllGlassesCopy)
    /\ UNCHANGED <<cache, now, _glassesData, ui, retry, form>>

\* typeof v === 'number'
IsNumber(v) == v.k \in {"int", "nan"}

\* a < b for JavaScript values that are numbers: false when one is NaN.
LessThan(a, b) == a.k = "int" /\ b.k = "int" /\ a.n < b.n

\* glasses.numeric_price >= minPrice && glasses.numeric_price <= maxPrice
InPriceRangeOfNumbers(glasses, minPrice, maxPrice) ==
    /\ minPrice.k = "int" /\ glasses.numeric_price >= minPrice.n
    /\ maxPrice.k = "int" /\ glasses.numeric_price <= maxPrice.n

\* getGlassesByPriceRange(minPrice, maxPrice)
getGlassesByPriceRange(minPrice, maxPrice) ==
    /\ args' = [minPrice |-> minPrice, maxPrice |-> maxPrice]
    /\ IF \/ ~IsNumber(minPrice) \/ ~IsNumber(maxPrice)
          \/ LessThan(minPrice, JSInt(0)) \/ LessThan(maxPrice, minPrice)
       THEN outcome' = Threw(NewError(<<"Invalid price range provided">>))
       ELSE outcome' = Returned(NewArray(
                SelectSeq(_glassesData,
                    LAMBDA g : InPriceRangeOfNumbers(g, minPrice, maxPrice))))
    /\ UNCHANGED <<cache, now, _glassesData, ui, retry, form>>

UpperCaseLetters ==
    <<"A", "B", "C", "D", "E", "F", "G", "H", "I", "J", "K", "L", "M",
      "N", "O", "P", "Q", "R", "S", "T", "U", "V", "W", "X", "Y", "Z">>

LowerCaseLetters ==
    <<"a", "b", "c", "d", "e", "f", "g", "h", "i", "j", "k", "l", "m",
      "n", "o", "p", "q", "r", "s", "t", "u", "v", "w", "x", "y", "z">>

\* String.prototype.toLowerCase on texts of ASCII characters.
ToLowerCase(s) ==
    [x \in DOMAIN s |->
        IF \E l \in DOMAIN UpperCaseLetters : UpperCaseLetters[l] = s[x]
        THEN LowerCaseLetters[CHOOSE l \in DOMAIN UpperCaseLetters :
                                  UpperCaseLetters[l] = s[x]]
        ELSE s[x]]

AllStyles == <<"a", "l", "l">>

\* getGlassesByFrameStyle(frameStyle)
getGlassesByFrameStyle(frameStyle) ==
    /\ args' = [frameStyle |-> frameStyle]
    /\ IF frameStyle = JSStr(AllStyles)
       THEN outcome' = Returned(AllGlassesCopy)
       ELSE IF frameStyle.k # "str"
       THEN outcome' = Threw(NewError(<<"Frame style must be a string">>))
       ELSE outcome' = Returned(NewArray(
                SelectSeq(_glassesData,
                    LAMBDA g : ToLowerCase(g.frame_style)
                                   = ToLowerCase(frameStyle.s))))
    /\ UNCHANGED <<cache, now, _glassesData, ui, retry, form>>

\* Math.round(num / den) for num >= 0 and den > 0.
RoundedQuotient(num, den) == (2 * num + den) \div (2 * den)

RECURSIVE SumOf(_)
SumOf(numbers) ==
    IF numbers = <<>> THEN 0 ELSE numbers[1] + SumOf(Tail(numbers))

\* The object getPriceStatistics returns; avgPrice is in hundredths.
PriceStatistics(glasses) ==
    LET prices == [x \in DOMAIN glasses |-> glasses[x].numeric_price]
    IN  IF Len(prices) = 0
        THEN [minPrice |-> 0, maxPrice |-> 0, avgPrice |-> 0,
              totalGlasses |-> 0, medicaidEligibleOptions |-> 0,
              lowIncomeOptions |-> 0, moderateIncomeOptions |-> 0]
        ELSE [minPrice |-> CHOOSE p \in Range(prices) :
                               \A q \in Range(prices) : p <= q,
              maxPrice |-> CHOOSE p \in Range(prices) :
                               \A q \in Range(prices) : q <= p,
              avgPrice |-> RoundedQuotient(SumOf(prices) * 100, Len(prices)),
              totalGlasses |-> Len(glasses),
              medicaidEligibleOptions |-> Len(SelectSeq(prices, LAMBDA p : p <= 50)),
              lowIncomeOptions |-> Len(SelectSeq(prices, LAMBDA p : p <= 100)),
              moderateIncomeOptions |->
                  Len(SelectSeq(prices, LAMBDA p : p > 50 /\ p <= 200))]

\* getPriceStatistics()
getPriceStatistics ==
    /\ args' = [operation |-> "getPriceStatistics"]
    /\ outcome' = Returned(PriceStatistics(_glassesData))
    /\ UNCHANGED <<cache, now, _glassesData, ui, retry, form>>

\* styleCounts of getFrameStyleStatistics: the count of every style.
FrameStyleStatistics(glasses) ==
    [style \in { glasses[x].frame_style : x \in DOMAIN glasses } |->
        Cardinality({ x \in DOMAIN glasses : glasses[x].frame_style = style })]

\* getFrameStyleStatistics()
getFrameStyleStatistics ==
    /\ args' = [operation |-> "getFrameStyleStatistics"]
    /\ outcome' = Returned([styleCounts |-> FrameStyleStatistics(_glassesData)])
    /\ UNCHANGED <<cache, now, _glassesData, ui, retry, form>>

\* Array.prototype.reverse
Reverse(s) == [x \in DOMAIN s |-> s[Len(s) + 1 - x]]

\* What the caller makes of an array it was handed: reverse(), length = 0.
Modifications(items) == {Reverse(items), <<>>}

\* Whether the last call handed an array to the caller.
HoldsArray == outcome.kind = "returned" /\ "is" \in DOMAIN outcome.value

\* The caller changes the array it was handed.  A change of the array
\* object this._glassesData is a change of the catalog.
ModifyReturnedArray ==
    /\ HoldsArray
    /\ \E items \in Modifications(outcome.value.items) :
        /\ outcome' = Returned([outcome.value EXCEPT !.items = items])
        /\ _glassesData' = IF outcome.value.is = "_glassesData"
                           THEN items
                           ELSE _glassesData
    /\ UNCHANGED <<cache, now, args, prev, ui, retry, form>>

----------------------------------------------------------------------------
(* The catalog under every public operation of the service and a caller    *)
(* that changes the arrays it is handed.                                    *)

MinPriceInputs == {JSInt(-1), JSInt(45), Str(45)}

MaxPriceInputs == {JSInt(95), JSInt(44), JSNaN}

FrameStyleInputs ==
    { JSStr(AllStyles), JSStr(<<"R", "o", "u", "n", "d">>), JSStr(SquareStyle),
      JSStr(<<"a", "v", "i", "a", "t", "o", "r">>), JSInt(5) }

AssessForCatalog ==
    /\ \E i \in {JSInt(20783), JSInt(-1)} :
           assessEligibility(JSInt(1), i, Str(20001))
    /\ UNCHANGED prev

RecommendForTier ==
    /\ \E e \in { t \in TierEligibilities :
                    t.tier \in {"medicaid_eligible", "moderate_income"} } :
           getPersonalizedRecommendations(e)
    /\ UNCHANGED prev

GetAllGlasses == getAllGlasses /\ UNCHANGED prev

GetGlassesByPriceRange ==
    /\ \E minPrice \in MinPriceInputs, maxPrice \in MaxPriceInputs :
           getGlassesByPriceRange(minPrice, maxPrice)
    /\ UNCHANGED prev

GetGlassesByFrameStyle ==
    /\ \E frameStyle \in FrameStyleInputs : getGlassesByFrameStyle(frameStyle)
    /\ UNCHANGED prev

GetPriceStatistics == getPriceStatistics /\ UNCHANGED prev

GetFrameStyleStatistics == getFrameStyleStatistics /\ UNCHANGED prev

NextCatalog ==
    \/ AssessForCatalog
    \/ RecommendForTier
    \/ GetAllGlasses
    \/ GetGlassesByPriceRange
    \/ GetGlassesByFrameStyle
    \/ GetPriceStatistics
    \/ GetFrameStyleStatistics
    \/ ModifyReturnedArray
    \/ clearCache
    \/ Tick

SpecCatalog == Init /\ [][NextCatalog]_vars

\* C17: the catalog is never mutated after construction.  No sequence of
\* assessEligibility, getPersonalizedRecommendations, getAllGlasses,
\* getGlassesByPriceRange, getGlassesByFrameStyle, the statistics getters
\* and clearCache changes its items or their order, and neither does a
\* caller that modifies an array a read accessor returned.
C17_CatalogNeverMutated == _glassesData = _initializeGlassesData

\* The caller reversed the array that getAllGlasses returned.
C17_Witness ==
    /\ args = [operation |-> "getAllGlasses"]
    /\ HoldsArray
    /\ outcome.value.items = Reverse(_initializeGlassesData)

----------------------------------------------------------------------------
(* Assessment results in the hands of the caller.  assessEligibility        *)
(* freezes the result object, which fixes its properties but not the arrays *)
(* they refer to: budgetRange and resources stay changeable.  The object a  *)
(* call returns is the object the cache holds under the key of the call,    *)
(* until clearCache drops it.                                               *)

\* result.budgetRange[1] = 999 and result.resources.length = 0
ModifiedResults(result) ==
    { [result EXCEPT !.budgetRange[2] = 999],
      [result EXCEPT !.resources = <<>>] }

\* The caller changes an array of the result the last call returned; prev
\* keeps the result as it was.
ModifyResult ==
    /\ outcome.kind = "returned"
    /\ LET cacheKey == EligibilityCacheKey(args.householdSize,
                                           args.annualIncome, args.zipCode)
       IN  \E changed \in ModifiedResults(outcome.value) :
              /\ outcome' = Returned(changed)
              /\ cache' = IF cacheKey \in DOMAIN cache
                          THEN [cache EXCEPT ![cacheKey] = changed]
                          ELSE cache
    /\ prev' = [kind |-> "modified", args |-> args, outcome |-> outcome]
    /\ UNCHANGED <<now, args, _glassesData, ui, retry, form>>

NextAlias == AssessAgain \/ ModifyResult \/ clearCache \/ Tick

SpecAlias == Init /\ [][NextAlias]_vars

\* The entry of the static tier table for a tier.
TierConfigOf(tier) == CHOOSE c \in Range(TIER_CONFIG) : c.tier = tier

\* C18: assessment results are independently constructed, without aliasing.
\* Whatever a caller did to the budgetRange or the resources list of results
\* returned earlier, the result a call of assessEligibility returns has the
\* budget range of its tier in the static tier table and the resources of
\* its tier.
C18_ResultsNotAliased ==
    (prev.kind = "call" /\ outcome.kind = "returned") =>
        /\ outcome.value.budgetRange
             = TierConfigOf(outcome.value.tier).budgetRange
        /\ outcome.value.resources
             = _getRelevantResources(outcome.value.tier)

\* The object the caller holds is the object in the cache under the key of
\* the last call, whenever the cache has that key.
HeldResultIsCached ==
    (outcome.kind = "returned"
       /\ EligibilityCacheKey(args.householdSize, args.annualIncome,
                              args.zipCode) \in DOMAIN cache)
    => cache[EligibilityCacheKey(args.householdSize, args.annualIncome,
                                 args.zipCode)] = outcome.value

----------------------------------------------------------------------------
(* The image service (class GlassesImageService).  In the specification of  *)
(* this section cache is the Map of the image service, the only service     *)
(* the specification runs.                                                  *)

\* The position of the character c in the list seq.
IndexIn(seq, c) == CHOOSE x \in DOMAIN seq : seq[x] = c

\* String.prototype.charCodeAt for letters, digits, the hyphen and the blank.
CharCode(c) ==
    IF c \in Range(UpperCaseLetters) THEN 64 + IndexIn(UpperCaseLetters, c)
    ELSE IF c \in Range(LowerCaseLetters) THEN 96 + IndexIn(LowerCaseLetters, c)
    ELSE IF c \in Range(DigitChars) THEN 47 + IndexIn(DigitChars, c)
    ELSE IF c = "-" THEN 45
    ELSE 32

\* A 32-bit integer is kept as two halves of 16 bits, hi * 2^16 + lo.
HalfWord == 65536

\* hash = ((hash << 5) - hash) + char; hash = hash & hash: 31 * hash + char
\* on the 32 bits of the two's complement.
HashStep(hash, char) ==
    LET lo == 31 * hash.lo + char
        hi == 31 * hash.hi + (lo \div HalfWord)
    IN  [hi |-> hi % HalfWord, lo |-> lo % HalfWord]

RECURSIVE HashLoop(_, _, _)
HashLoop(str, i, hash) ==
    IF i > Len(str) THEN hash
    ELSE HashLoop(str, i + 1, HashStep(hash, CharCode(str[i])))

\* Math.abs of the 32-bit integer with the bits hash.
Abs(hash) ==
    IF hash.hi < HalfWord \div 2 THEN hash
    ELSE IF hash.lo = 0 THEN [hi |-> HalfWord - hash.hi, lo |-> 0]
    ELSE [hi |-> HalfWord - 1 - hash.hi, lo |-> HalfWord - hash.lo]

\* hashString(str)
hashString(str) == Abs(HashLoop(str, 1, [hi |-> 0, lo |-> 0]))

\* hash % n, for n up to 1000
Modulo(hash, n) == ((hash.hi % n) * (HalfWord % n) + hash.lo) % n

\* The texts of queryMap, each a list of words and blanks.
RoundQueries ==
    << <<"round", " ", "eyeglasses">>, <<"round", " ", "glasses", " ", "frames">>,
       <<"circular", " ", "glasses">>, <<"round", " ", "spectacles">> >>

SquareQueries ==
    << <<"square", " ", "glasses">>, <<"rectangular", " ", "eyeglasses">>,
       <<"geometric", " ", "frames">>, <<"angular", " ", "glasses">> >>

RectangularQueries ==
    << <<"rectangular", " ", "glasses">>, <<"classic", " ", "eyeglasses">>,
       <<"office", " ", "glasses">>, <<"professional", " ", "frames">> >>

AviatorQueries ==
    << <<"aviator", " ", "glasses">>, <<"pilot", " ", "glasses">>,
       <<"aviator", " ", "frames">>, <<"metal", " ", "aviators">> >>

CatEyeQueries ==
    << <<"cat", " ", "eye", " ", "glasses">>, <<"vintage", " ", "eyeglasses">>,
       <<"retro", " ", "frames">>, <<"cat", " ", "eye", " ", "frames">> >>

ClassicQueries ==
    << <<"classic", " ", "glasses">>, <<"traditional", " ", "eyeglasses">>,
       <<"timeless", " ", "frames">>, <<"vintage", " ", "glasses">> >>

DefaultQueries ==
    << <<"eyeglasses">>, <<"glasses", " ", "frames">>, <<"spectacles">>,
       <<"optical", " ", "glasses">> >>

ClassicStyleName == <<"C", "l", "a", "s", "s", "i", "c">>

CatEyeStyleName == <<"C", "a", "t", "-", "E", "y", "e">>

\* getGlassesSearchQueries(frameStyle): queryMap[frameStyle] || queryMap.default
getGlassesSearchQueries(frameStyle) ==
    CASE frameStyle = <<"R", "o", "u", "n", "d">> -> RoundQueries
      [] frameStyle = <<"S", "q", "u", "a", "r", "e">> -> SquareQueries
      [] frameStyle = <<"R", "e", "c", "t", "a", "n", "g", "u", "l", "a", "r">>
            -> RectangularQueries
      [] frameStyle = <<"A", "v", "i", "a", "t", "o", "r">> -> AviatorQueries
      [] frameStyle = CatEyeStyleName -> CatEyeQueries
      [] frameStyle = ClassicStyleName -> ClassicQueries
      [] OTHER -> DefaultQueries

\* encodeURIComponent of a text of words and blanks.
encodeURIComponent(text) ==
    [x \in DOMAIN text |-> IF text[x] = " " THEN "%20" ELSE text[x]]

\* `${glasses.name}-${glasses.frame_style}-${glasses.material}`
ImageCacheKey(glasses) ==
    TemplateString(glasses.name) \o <<"-">>
        \o TemplateString(glasses.frame_style) \o <<"-">>
        \o TemplateString(glasses.material)

\* The URL generateImage builds on a cache miss.
NewImageUrl(glasses) ==
    LET frameStyle ==
            IF glasses.frame_style.k = "undefined" \/ glasses.frame_style.s = <<>>
            THEN ClassicStyleName
            ELSE glasses.frame_style.s
        queries == getGlassesSearchQueries(frameStyle)
        hash == hashString(TemplateString(glasses.name) \o <<"-">>
                    \o frameStyle \o <<"-">> \o TemplateString(glasses.material))
        query == queries[Modulo(hash, Len(queries)) + 1]
        seed == Modulo(hash, 1000)
    IN  <<"https://source.unsplash.com/768x512/?">>
            \o encodeURIComponent(query) \o <<"&">> \o NatToStr(seed)

\* One call generateImage(glasses).
generateImage(glasses) ==
    LET cacheKey == ImageCacheKey(glasses)
        imageUrl == NewImageUrl(glasses)
    IN  /\ args' = [glasses |-> glasses]
        /\ IF cacheKey \in DOMAIN cache
           THEN /\ outcome' = Returned(cache[cacheKey])
                /\ UNCHANGED cache
           ELSE /\ Cardinality(DOMAIN cache) < MaxCacheSize
                /\ outcome' = Returned(imageUrl)
                /\ cache' = CacheSet(cache, cacheKey, imageUrl)
        /\ UNCHANGED <<now, _glassesData, ui, retry, form>>

\* clearCache() of the image service: no URL of the cache is a blob URL.
clearImageCache ==
    /\ cache' = EmptyCache
    /\ UNCHANGED <<now, args, outcome, prev, _glassesData, ui, retry, form>>

----------------------------------------------------------------------------
(* The image service under requests for items whose names and styles hold   *)
(* hyphens or lack a style.  prev keeps, for every item requested so far,   *)
(* the URL that the first request for it returned.                          *)

ImageNames == {JSStr(<<"X">>), JSStr(<<"X", "-", "C", "a", "t">>)}

ImageStyles ==
    {JSStr(CatEyeStyleName), JSStr(<<"E", "y", "e">>),
     JSStr(<<"R", "o", "u", "n", "d">>), JSUndefined}

ImageMaterials == {JSStr(<<"M">>)}

ImageInputs ==
    [name : ImageNames, frame_style : ImageStyles, material : ImageMaterials]

\* The URLs on record in prev.
FirstUrls == IF prev.kind = "urls" THEN prev.urls ELSE EmptyCache

GenerateImage ==
    /\ \E glasses \in ImageInputs : generateImage(glasses)
    /\ prev' = [kind |-> "urls",
                urls |-> IF args'.glasses \in DOMAIN FirstUrls
                         THEN FirstUrls
                         ELSE CacheSet(FirstUrls, args'.glasses, outcome'.value)]

NextImage == GenerateImage \/ clearImageCache

SpecImage == Init /\ [][NextImage]_vars

\* C19: the image URL is a function of (name, frame style, material) alone.
\* After any sequence of generateImage and clearCache calls, generateImage
\* for an item yields the URL that every earlier request for an item with
\* the same name, frame_style and material yielded, whatever was requested
\* in between and whatever the cache holds.
C19_UrlIsFunctionOfItem ==
    (prev.kind = "urls" /\ outcome.kind = "returned")
        => outcome.value = prev.urls[args.glasses]

----------------------------------------------------------------------------
(* The two GlassesFinder components: the refactored one, which takes its    *)
(* form values from the validation hook, and the one with the dropdown      *)
(* form, which keeps formData itself and has a budget field.  ui is the     *)
(* state of the mounted component.                                          *)

JSNull == [k |-> "null", n |-> 0, s |-> <<>>]

\* The longest prefix of s that consists of digits.
RECURSIVE DigitsPrefix(_)
DigitsPrefix(s) ==
    IF s = <<>> \/ Head(s) \notin Range(DigitChars) THEN <<>>
    ELSE <<Head(s)>> \o DigitsPrefix(Tail(s))

\* The number a text of digits denotes.
RECURSIVE DigitsToNat(_)
DigitsToNat(digits) ==
    IF digits = <<>> THEN 0
    ELSE 10 * DigitsToNat(SubSeq(digits, 1, Len(digits) - 1))
            + (IndexIn(DigitChars, digits[Len(digits)]) - 1)

\* parseInt(text): leading blanks and a sign are skipped, the digits that
\* follow are read, and without a digit the result is NaN.
parseInt(text) ==
    LET t == TrimStart(text)
        signed == t # <<>> /\ Head(t) \in {"-", "+"}
        digits == DigitsPrefix(IF signed THEN Tail(t) ELSE t)
    IN  IF digits = <<>> THEN JSNaN
        ELSE IF signed /\ Head(t) = "-" THEN JSInt(-DigitsToNat(digits))
        ELSE JSInt(DigitsToNat(digits))

\* glassesService.assessEligibility on the cache c at the time t: the cache
\* afterwards and the outcome.
AssessCall(c, householdSize, annualIncome, zipCode, t) ==
    LET cacheKey == EligibilityCacheKey(householdSize, annualIncome, zipCode)
        v == _validateInputs(householdSize, annualIncome, zipCode)
        eligibility == NewEligibility(householdSize, annualIncome, zipCode, t)
    IN  IF cacheKey \in DOMAIN c
        THEN [cache |-> c, outcome |-> Returned(c[cacheKey])]
        ELSE IF v.threw
        THEN [cache |-> c, outcome |-> Threw(v.error)]
        ELSE [cache |-> CacheSet(c, cacheKey, eligibility),
              outcome |-> Returned(eligibility)]

\* glassesService.getPersonalizedRecommendations on the cache c at the
\* time t: the cache afterwards and the outcome.
RecommendCall(c, eligibility, t) ==
    LET cacheKey == RecommendationsCacheKey(eligibility)
        recommendations == NewRecommendations(eligibility, _glassesData, t)
    IN  IF LacksBudgetRange(eligibility)
        THEN [cache |-> c,
              outcome |-> Threw(NewError(<<"Invalid eligibility data provided">>))]
        ELSE IF cacheKey \in DOMAIN c
        THEN [cache |-> c, outcome |-> Returned(c[cacheKey])]
        ELSE [cache |-> CacheSet(c, cacheKey, recommendations),
              outcome |-> Returned(recommendations)]

\* The try block once the two service calls have been made: `assessed` and
\* `recommended` are the calls' results, the second one made (and looked
\* at) only when the first call returned.
SubmitTried(assessed, recommended) ==
    IF assessed.outcome.kind = "threw"
    THEN [cache |-> assessed.cache, caught |-> assessed.outcome, ui |-> ui]
    ELSE IF recommended.outcome.kind = "threw"
    THEN [cache |-> recommended.cache, caught |-> recommended.outcome,
          ui |-> [ui EXCEPT !.eligibilityData = assessed.outcome.value]]
    ELSE [cache |-> recommended.cache, caught |-> NoOutcome,
          ui |-> [ui EXCEPT !.eligibilityData = assessed.outcome.value,
                            !.recommendations = recommended.outcome.value,
                            !.currentStep = "results"]]

\* The try block of handleFormSubmit when it clears the results before the
\* assessment.
SubmitTryClearingFirst(values) ==
    LET assessed == AssessCall(cache, parseInt(values.householdSize),
                               parseInt(values.income), JSStr(values.zipCode), now)
        recommended == RecommendCall(assessed.cache, assessed.outcome.value, now)
        cleared == [ui EXCEPT !.eligibilityData = JSNull,
                              !.recommendations = JSNull]
    IN  IF assessed.outcome.kind = "threw"
        THEN [cache |-> assessed.cache, caught |-> assessed.outcome, ui |-> cleared]
        ELSE [cache |-> recommended.cache, caught |-> NoOutcome,
              ui |-> [ui EXCEPT !.eligibilityData = assessed.outcome.value,
                                !.recommendations = recommended.outcome.value,
                                !.currentStep = "results"]]

\* The try block of handleFormSubmit when it does not set the
\* recommendations.
SubmitTryWithoutRecommendations(values) ==
    LET assessed == AssessCall(cache, parseInt(values.householdSize),
                               parseInt(values.income), JSStr(values.zipCode), now)
    IN  IF assessed.outcome.kind = "threw"
        THEN [cache |-> assessed.cache, caught |-> assessed.outcome, ui |-> ui]
        ELSE [cache |-> assessed.cache, caught |-> NoOutcome,
              ui |-> [ui EXCEPT !.eligibilityData = assessed.outcome.value,
                                !.currentStep = "results"]]

\* The try block of handleFormSubmit, the same in both components: the
\* cache afterwards, the error caught if one was thrown, and the state of
\* the component after the setters that were reached.
SubmitTry(values) ==
    LET assessed == AssessCall(cache, parseInt(values.householdSize),
                               parseInt(values.income), JSStr(values.zipCode), now)
    IN  SubmitTried(assessed,
                    RecommendCall(assessed.cache, assessed.outcome.value, now))

\* handleFormSubmit(values) of the refactored component: an error is thrown
\* on to the hook, and isLoading is false in the end.
handleFormSubmit(values) ==
    LET try == SubmitTry(values)
    IN  /\ Cardinality(DOMAIN try.cache) <= MaxCacheSize
        /\ args' = [values |-> values]
        /\ cache' = try.cache
        /\ ui' = [try.ui EXCEPT !.isLoading = FALSE]
        /\ outcome' = IF try.caught.kind = "threw"
                      THEN Threw(NewError(try.caught.error.message))
                      ELSE Returned(JSUndefined)
        /\ UNCHANGED <<now, _glassesData, retry, form>>

\* handleFormSubmit(e) of the component with the dropdown form, which reads
\* formData; an error is shown with alert.
handleFormSubmitDropdown ==
    LET try == SubmitTry(ui.formData)
    IN  /\ Cardinality(DOMAIN try.cache) <= MaxCacheSize
        /\ args' = [e |-> "submit"]
        /\ cache' = try.cache
        /\ ui' = try.ui
        /\ outcome' = IF try.caught.kind = "threw"
                      THEN [kind |-> "alert",
                            message |-> <<"Error: ">> \o try.caught.error.message]
                      ELSE Returned(JSUndefined)
        /\ UNCHANGED <<now, _glassesData, retry, form>>

\* setFilters with one of the two filters replaced.
handleFilterChange(filterType, value) ==
    /\ ui' = [ui EXCEPT !.filters =
                 IF filterType = "priceRange"
                 THEN [ui.filters EXCEPT !.priceRange = value]
                 ELSE [ui.filters EXCEPT !.frameStyle = value]]
    /\ UNCHANGED <<cache, now, args, outcome, _glassesData, retry, form>>

\* setFormData({...formData, [field]: value}) of the dropdown form.
setFormData(field, value) ==
    /\ ui' = [ui EXCEPT !.formData =
                 [f \in DOMAIN ui.formData |->
                     IF f = field THEN value ELSE ui.formData[f]]]
    /\ UNCHANGED <<cache, now, args, outcome, _glassesData, retry, form>>

\* priceMatch of filteredGlasses
PriceMatch(filters, glasses) ==
    \/ filters.priceRange = "all"
    \/ filters.priceRange = "under50" /\ glasses.numeric_price < 50
    \/ /\ filters.priceRange = "50-100"
       /\ glasses.numeric_price >= 50 /\ glasses.numeric_price <= 100
    \/ filters.priceRange = "over100" /\ glasses.numeric_price > 100

\* styleMatch of filteredGlasses
StyleMatch(filters, glasses) ==
    \/ filters.frameStyle = AllStyles
    \/ ToLowerCase(glasses.frame_style) = ToLowerCase(filters.frameStyle)

\* budgetMatch of filteredGlasses in the component with the dropdown form
BudgetMatch(formData, glasses) ==
    CASE formData.budget = "under50" -> glasses.numeric_price < 50
      [] formData.budget = "50-75" ->
            glasses.numeric_price >= 50 /\ glasses.numeric_price <= 75
      [] formData.budget = "75-100" ->
            glasses.numeric_price >= 75 /\ glasses.numeric_price <= 100
      [] formData.budget = "100-150" ->
            glasses.numeric_price >= 100 /\ glasses.numeric_price <= 150
      [] formData.budget = "150-200" ->
            glasses.numeric_price >= 150 /\ glasses.numeric_price <= 200
      [] formData.budget = "200plus" -> glasses.numeric_price >= 200
      [] OTHER -> TRUE

\* filteredGlasses without its styleMatch.
FilteredGlassesAnyStyle ==
    LET displayGlasses ==
            IF ui.recommendations # JSNull
            THEN ui.recommendations.allRecommendations
            ELSE ui.allGlassesData
    IN  SelectSeq(displayGlasses,
            LAMBDA g : /\ PriceMatch(ui.filters, g)
                       /\ ui.component = "dropdown" => BudgetMatch(ui.formData, g))

\* filteredGlasses of the mounted component: the list on display.
filteredGlasses ==
    LET displayGlasses ==
            IF ui.recommendations # JSNull
            THEN ui.recommendations.allRecommendations
            ELSE ui.allGlassesData
    IN  SelectSeq(displayGlasses,
            LAMBDA g : /\ PriceMatch(ui.filters, g)
                       /\ StyleMatch(ui.filters, g)
                       /\ ui.component = "dropdown" => BudgetMatch(ui.formData, g))

----------------------------------------------------------------------------
(* A component is mounted, its filters and its form are changed, and the    *)
(* form is submitted.                                                       *)

Components == {"refactored", "dropdown"}

\* The state of a component when it is mounted.
InitialState(component) ==
    [component |-> component,
     currentStep |-> "welcome",
     isLoading |-> FALSE,
     filters |-> [priceRange |-> "all", frameStyle |-> AllStyles],
     formData |-> [householdSize |-> <<>>, income |-> <<>>, zipCode |-> <<>>,
                   budget |-> ""],
     eligibilityData |-> JSNull,
     recommendations |-> JSNull,
     allGlassesData |-> AllGlassesCopy.items]

Mount ==
    /\ ui.component = "none"
    /\ \E component \in Components : ui' = InitialState(component)
    /\ UNCHANGED <<cache, now, args, outcome, prev, _glassesData, retry, form>>

\* The options of the price range select.
PriceRangeOptions == {"all", "under50", "50-100", "over100"}

\* The options of the frame style select.
FrameStyleOptions ==
    { AllStyles, RoundStyle, SquareStyle, RectangularStyle,
      <<"a", "v", "i", "a", "t", "o", "r">>,
      <<"c", "a", "t", "-", "e", "y", "e">>,
      <<"c", "l", "a", "s", "s", "i", "c">> }

\* Options of the other selects of the dropdown form, the empty option and
\* one more.
HouseholdSizeOptions == {<<>>, <<"1">>}

IncomeOptions == {<<>>, NatToStr(62500)}

ZipCodeOptions == {<<>>, NatToStr(20001)}

\* The options of the budget select; the empty option first.
BudgetOptions ==
    {"", "under50", "50-75", "75-100", "100-150", "150-200", "200plus"}

\* Values the validation hook hands to handleFormSubmit.
FormValues ==
    [householdSize : HouseholdSizeOptions,
     income : {NatToStr(20000), NatToStr(42500)},
     zipCode : {NatToStr(20001)}]

SubmitRefactored ==
    /\ ui.component = "refactored"
    /\ \E values \in FormValues : handleFormSubmit(values)
    /\ UNCHANGED prev

SubmitDropdown ==
    /\ ui.component = "dropdown"
    /\ handleFormSubmitDropdown
    /\ UNCHANGED prev

ChangePriceFilter ==
    /\ ui.component # "none"
    /\ \E value \in PriceRangeOptions : handleFilterChange("priceRange", value)
    /\ UNCHANGED prev

ChangeStyleFilter ==
    /\ ui.component # "none"
    /\ \E value \in FrameStyleOptions : handleFilterChange("frameStyle", value)
    /\ UNCHANGED prev

ChangeFormData ==
    /\ ui.component = "dropdown"
    /\ \/ \E value \in HouseholdSizeOptions : setFormData("householdSize", value)
       \/ \E value \in IncomeOptions : setFormData("income", value)
       \/ \E value \in ZipCodeOptions : setFormData("zipCode", value)
       \/ \E value \in BudgetOptions : setFormData("budget", value)
    /\ UNCHANGED prev

NextFilters ==
    \/ Mount
    \/ SubmitRefactored
    \/ SubmitDropdown
    \/ ChangePriceFilter
    \/ ChangeStyleFilter
    \/ ChangeFormData

SpecFilters == Init /\ [][NextFilters]_vars

\* The component shows a list of recommendations.
RecommendationsShown == ui.component # "none" /\ ui.recommendations # JSNull

\* The places of allRecommendations whose items match the price range
\* filter and the frame style filter.
MatchingBothFilters ==
    { x \in DOMAIN ui.recommendations.allRecommendations :
        /\ PriceMatch(ui.filters, ui.recommendations.allRecommendations[x])
        /\ StyleMatch(ui.filters, ui.recommendations.allRecommendations[x]) }

\* The places among those whose items also match the budget chosen in the
\* dropdown form; the refactored component has no budget field.
MatchingBudgetToo ==
    { x \in MatchingBothFilters :
        ui.component = "dropdown" =>
            BudgetMatch(ui.formData, ui.recommendations.allRecommendations[x]) }

\* The list shown is the items of allRecommendations at the places kept, in
\* the order of allRecommendations.
ShowsExactly(kept) ==
    /\ Len(filteredGlasses) = Cardinality(kept)
    /\ \A x \in DOMAIN filteredGlasses :
          filteredGlasses[x] =
              ui.recommendations.allRecommendations[
                  CHOOSE k \in kept : Cardinality({j \in kept : j <= k}) = x]

\* C20 as stated: the list on display is exactly the items of
\* allRecommendations that match both the price range filter and the frame
\* style filter, in the order of allRecommendations, and it is
\* allRecommendations when both filters are 'all'.
C20_ShowsItemsMatchingBothFilters ==
    RecommendationsShown =>
        /\ ShowsExactly(MatchingBothFilters)
        /\ (ui.filters.priceRange = "all" /\ ui.filters.frameStyle = AllStyles)
              => filteredGlasses = ui.recommendations.allRecommendations

\* C20, amended: the list on display is exactly the items of
\* allRecommendations that match the price range filter, the frame style
\* filter and, in the component with the dropdown form, the budget chosen in
\* the form, in the order of allRecommendations; it is allRecommendations
\* when both filters are 'all' and no budget is chosen.
C20_ShowsItemsMatchingEveryFilter ==
    RecommendationsShown =>
        /\ ShowsExactly(MatchingBudgetToo)
        /\ ( /\ ui.filters.priceRange = "all"
             /\ ui.filters.frameStyle = AllStyles
             /\ ui.component = "dropdown" => ui.formData.budget = "" )
              => filteredGlasses = ui.recommendations.allRecommendations

\* All eight items are recommended, and with the price range 50-100, the
\* budget 75-100 and no frame style chosen the three items priced 95 are
\* shown in their order.
C20_Witness ==
    /\ RecommendationsShown
    /\ ui.component = "dropdown"
    /\ Len(ui.recommendations.allRecommendations) = 8
    /\ ui.filters = [priceRange |-> "50-100", frameStyle |-> AllStyles]
    /\ ui.formData.budget = "75-100"
    /\ NamesOf(filteredGlasses) = <<"Felix", "Hardy", "Percey">>

----------------------------------------------------------------------------
(* errorHandler.withRetry.  retry is the state of one call: its arguments,  *)
(* the loop variable attempt, lastError, where the call stands (pc), and,   *)
(* as history, the number of invocations of the operation and how each one  *)
(* settled.                                                                 *)

\* The largest maxRetries a call is made with in the model.
MaxRetriesInput == 3

\* new NetworkError(message, status)
NewNetworkError(message, status) ==
    [class |-> "NetworkError", message |-> message, field |-> "absent",
     code |-> "absent", status |-> status]

\* error instanceof ValidationError, without the test: nothing is one.
NothingIsValidationError(error) == FALSE

\* error instanceof ValidationError
IsValidationError(error) == error.class = "ValidationError"

\* attempt === maxRetries, taken one attempt early.
IsAttemptBeforeLast(attempt, maxRetries) == attempt + 1 >= maxRetries

\* attempt === maxRetries
IsLastAttempt(attempt, maxRetries) == attempt = maxRetries

\* withRetry(operation, maxRetries, delay) is called: the loop variable is
\* initialised.
withRetry(maxRetries, delay) ==
    /\ retry.pc \in {"idle", "done"}
    /\ retry' = [pc |-> "loop", maxRetries |-> maxRetries, delay |-> delay,
                 attempt |-> 1, lastError |-> JSUndefined, timer |-> 0,
                 calls |-> 0, settled |-> <<>>, result |-> NoOutcome]
    /\ UNCHANGED <<cache, now, args, outcome, prev, _glassesData, ui, form>>

\* The loop test attempt <= maxRetries: the operation is invoked and awaited,
\* or the loop is left and lastError is thrown.
RetryLoop ==
    /\ retry.pc = "loop"
    /\ retry' = IF retry.attempt <= retry.maxRetries
                THEN [retry EXCEPT !.pc = "await", !.calls = @ + 1]
                ELSE [retry EXCEPT !.pc = "done",
                                   !.result = Threw(retry.lastError)]
    /\ UNCHANGED <<cache, now, args, outcome, prev, _glassesData, ui, form>>

\* The awaited operation has settled with o: return await operation(), or
\* the catch block.
RetrySettled(o) ==
    IF o.kind = "returned"
    THEN [retry EXCEPT !.pc = "done", !.result = o,
                       !.settled = Append(@, o)]
    ELSE IF \/ IsValidationError(o.error)
            \/ IsLastAttempt(retry.attempt, retry.maxRetries)
    THEN [retry EXCEPT !.pc = "done", !.result = Threw(o.error),
                       !.lastError = o.error, !.settled = Append(@, o)]
    ELSE [retry EXCEPT !.pc = "sleep", !.lastError = o.error,
                       !.timer = retry.delay * retry.attempt,
                       !.settled = Append(@, o)]

\* The ways the operation of an attempt settles: with a value, or with a
\* ValidationError, an Error or a NetworkError made in that attempt.
OperationOutcomes(attempt) ==
    LET message == <<"attempt ">> \o NatToStr(attempt)
    IN  { Returned(JSInt(attempt)),
          Threw(NewValidationError(message, "zipCode")),
          Threw(NewError(message)),
          Threw(NewNetworkError(message, 503)) }

OperationSettles ==
    /\ retry.pc = "await"
    /\ \E o \in OperationOutcomes(retry.attempt) : retry' = RetrySettled(o)
    /\ UNCHANGED <<cache, now, args, outcome, prev, _glassesData, ui, form>>

\* The timer of setTimeout(resolve, delay * attempt) fires; attempt++.
RetryTimerFires ==
    /\ retry.pc = "sleep"
    /\ retry' = [retry EXCEPT !.pc = "loop", !.attempt = @ + 1, !.timer = 0]
    /\ UNCHANGED <<cache, now, args, outcome, prev, _glassesData, ui, form>>

\* maxRetries and delay of the calls; 3 and 1000 are the defaults.
RetryDelays == {0, 1000}

CallWithRetry ==
    \E maxRetries \in 0..MaxRetriesInput, delay \in RetryDelays :
        withRetry(maxRetries, delay)

NextRetry ==
    \/ CallWithRetry
    \/ RetryLoop
    \/ OperationSettles
    \/ RetryTimerFires

\* The continuations of a call run, its timers fire, and the operation it
\* awaits settles.
SpecRetry ==
    /\ Init
    /\ [][NextRetry]_vars
    /\ WF_vars(RetryLoop)
    /\ WF_vars(OperationSettles)
    /\ WF_vars(RetryTimerFires)

\* The places of the attempts that threw a ValidationError.
ValidationFailures ==
    { x \in DOMAIN retry.settled :
        /\ retry.settled[x].kind = "threw"
        /\ retry.settled[x].error.class = "ValidationError" }

\* C21: withRetry never retries a validation failure: an attempt that threw
\* a ValidationError is the last invocation of the operation, and the call
\* has been rejected with that same error, whatever maxRetries is and
\* whichever attempt it is.
C21_ValidationFailureNotRetried ==
    retry.pc # "idle" =>
        \A x \in ValidationFailures :
            /\ retry.calls = x
            /\ retry.pc = "done"
            /\ retry.result = retry.settled[x]

\* A call with maxRetries 3 whose second attempt threw a ValidationError.
C21_Witness ==
    /\ retry.pc = "done"
    /\ retry.maxRetries = 3
    /\ retry.calls = 2
    /\ ValidationFailures = {2}
    /\ retry.result = Threw(NewValidationError(<<"attempt ", "2">>, "zipCode"))

\* The places of the attempts that returned a value.
Successes ==
    { x \in DOMAIN retry.settled : retry.settled[x].kind = "returned" }

\* Every attempt made has failed, none with a ValidationError.
OnlyOtherFailures == Successes = {} /\ ValidationFailures = {}

\* What C22 says of a state of a call with maxRetries >= 1: an attempt that
\* succeeded is the last invocation and the call has resolved with its
\* result; the operation is invoked at most maxRetries times; and a call
\* that has ended after nothing but other failures has invoked the operation
\* exactly maxRetries times and is rejected with the error of the last one.
RetryEndsAsSpecified ==
    (retry.pc # "idle" /\ retry.maxRetries >= 1) =>
        /\ \A x \in Successes :
              /\ retry.calls = x
              /\ retry.pc = "done"
              /\ retry.result = retry.settled[x]
        /\ retry.calls <= retry.maxRetries
        /\ (retry.pc = "done" /\ OnlyOtherFailures) =>
              /\ retry.calls = retry.maxRetries
              /\ Len(retry.settled) = retry.maxRetries
              /\ retry.result = retry.settled[retry.maxRetries]

\* C22: withRetry terminates for every maxRetries >= 1: a call that has
\* been made ends, it resolves with the result of the first attempt that
\* succeeds and does not invoke the operation after it, and when every
\* attempt fails with an error that is no ValidationError the operation is
\* invoked exactly maxRetries times and the call is rejected with the error
\* of the last attempt.
C22_RetryTerminates ==
    /\ []RetryEndsAsSpecified
    /\ (retry.pc \in {"loop", "await", "sleep"}) ~> (retry.pc = "done")

\* A call with maxRetries 3 has ended after three failures, the last one a
\* NetworkError, and is rejected with it.
C22_Witness ==
    /\ retry.pc = "done"
    /\ retry.maxRetries = 3
    /\ retry.calls = 3
    /\ OnlyOtherFailures
    /\ retry.result = Threw(NewNetworkError(<<"attempt ", "3">>, 503))

----------------------------------------------------------------------------
(* The dropdown form with all its options: the form is opened from the      *)
(* welcome screen, options are selected and the form is submitted.          *)

\* setCurrentStep(step)
setCurrentStep(step) ==
    /\ ui' = [ui EXCEPT !.currentStep = step]
    /\ UNCHANGED <<cache, now, args, outcome, _glassesData, retry, form>>

\* The option values of the household size select: 1 to 8.
householdSizes == { NatToStr(size) : size \in 1..8 }

\* The option values of incomeRanges.
incomeRanges ==
    { NatToStr(value) :
        value \in {20000, 30000, 42500, 62500, 87500, 125000, 175000} }

\* dcZipCodes with a zip code of Arlington added.
dcZipCodesAndArlington ==
    { NatToStr(z) : z \in {20001, 20002, 20003, 22201} }

\* dcZipCodes of the dropdown form
dcZipCodes ==
    { NatToStr(z) : z \in
        {20001, 20002, 20003, 20004, 20005, 20006, 20007, 20008,
         20009, 20010, 20011, 20012, 20015, 20016, 20017, 20018,
         20019, 20020, 20024, 20036, 20037} }

MountDropdown == Mount /\ ui'.component = "dropdown"

\* The button of the welcome screen.
StartForm ==
    /\ ui.component = "dropdown"
    /\ ui.currentStep = "welcome"
    /\ setCurrentStep("form")
    /\ UNCHANGED prev

\* An option of a select of the form is chosen, the empty one included.
SelectOption ==
    /\ ui.component = "dropdown"
    /\ ui.currentStep = "form"
    /\ \/ \E value \in householdSizes \cup {<<>>} :
             setFormData("householdSize", value)
       \/ \E value \in incomeRanges \cup {<<>>} : setFormData("income", value)
       \/ \E value \in dcZipCodes \cup {<<>>} : setFormData("zipCode", value)
       \/ \E value \in {"", "under50"} : setFormData("budget", value)
    /\ UNCHANGED prev

\* Every select of the form is required: the browser submits the form only
\* when none of them has the empty option selected.
RequiredSelected(formData) ==
    /\ formData.householdSize # <<>>
    /\ formData.income # <<>>
    /\ formData.zipCode # <<>>
    /\ formData.budget # ""

\* The form is submitted; prev keeps the formData it was submitted with.
SubmitForm ==
    /\ ui.component = "dropdown"
    /\ ui.currentStep = "form"
    /\ RequiredSelected(ui.formData)
    /\ handleFormSubmitDropdown
    /\ prev' = [kind |-> "submitted", formData |-> ui.formData]

NextDropdown ==
    \/ MountDropdown
    \/ StartForm
    \/ SelectOption
    \/ SubmitForm

SpecDropdown == Init /\ [][NextDropdown]_vars

\* The form was submitted with an option other than the empty one chosen in
\* each select.
FilledInFormSubmitted ==
    /\ prev.kind = "submitted"
    /\ RequiredSelected(prev.formData)

\* C23: every zip code of the dropdown form is in the allow-list of the
\* service, and a submission of the form with household size, income and zip
\* code all selected never ends in an error: it reaches the results step
\* with an eligibility and recommendations.
C23_FilledInFormReachesResults ==
    /\ dcZipCodes \subseteq VALID_DC_ZIP_CODES
    /\ FilledInFormSubmitted =>
          /\ outcome = Returned(JSUndefined)
          /\ ui.currentStep = "results"
          /\ ui.eligibilityData # JSNull
          /\ ui.recommendations # JSNull

\* The form was submitted with household size 8, income 175000 and the zip
\* code 20037, and the results are shown.
C23_Witness ==
    /\ FilledInFormSubmitted
    /\ prev.formData.householdSize = <<"8">>
    /\ prev.formData.income = NatToStr(175000)
    /\ prev.formData.zipCode = NatToStr(20037)
    /\ ui.currentStep = "results"
    /\ ui.eligibilityData.tier = "moderate_income"

----------------------------------------------------------------------------
(* The ids of catalog items: _generateId, applied by _createGlassesItem to   *)
(* the site and the name of a raw item.                                     *)

\* normalize of _generateId: str.toLowerCase().replace(/[^a-z0-9]/g, '-')
normalize(str) ==
    [x \in DOMAIN str |->
        IF ToLowerCase(str)[x] \in Range(LowerCaseLetters) \cup Range(DigitChars)
        THEN ToLowerCase(str)[x]
        ELSE "-"]

\* _generateId(site, name)
_generateId(site, name) == normalize(site) \o <<"-">> \o normalize(name)

WarbyParker == <<"W", "a", "r", "b", "y", " ", "P", "a", "r", "k", "e", "r">>

\* Sites and names of raw items: the site of the catalog and names from it,
\* and other spellings.
RawSites ==
    { WarbyParker, <<"W", "a", "r", "b", "y">>,
      <<"W", "a", "r", "b", "y", "-", "P", "a", "r", "k", "e", "r">> }

RawNames ==
    { <<"F", "e", "l", "i", "x">>, <<"H", "a", "r", "d", "y">>,
      <<"f", "e", "l", "i", "x">>,
      <<"P", "a", "r", "k", "e", "r", " ", "F", "e", "l", "i", "x">> }

RawItems == [site : RawSites, name : RawNames]

\* _createGlassesItem for two raw items: the ids they are given.
CreateGlassesItems ==
    /\ \E first \in RawItems, second \in RawItems :
          /\ args' = [first |-> first, second |-> second]
          /\ outcome' = Returned(<<_generateId(first.site, first.name),
                                   _generateId(second.site, second.name)>>)
    /\ UNCHANGED <<cache, now, prev, _glassesData, ui, retry, form>>

NextIds == CreateGlassesItems

SpecIds == Init /\ [][NextIds]_vars

\* C24: two raw items that differ in site or name are given different ids.
C24_IdsUnique ==
    (outcome.kind = "returned" /\ args.first # args.second)
        => outcome.value[1] # outcome.value[2]

----------------------------------------------------------------------------
(* The hook useFormValidation with the schema of createValidationSchema.    *)
(* form is the state of the hook: values, errors, touched and isSubmitting, *)
(* and the number of handleSubmit invocations that await their onSubmit;    *)
(* as history it counts the onSubmit calls.                                 *)

\* Number(text) for a text of digits, letters, signs and blanks.
ToNumber(text) ==
    LET t == Trim(text)
        signed == t # <<>> /\ Head(t) \in {"-", "+"}
        digits == IF signed THEN Tail(t) ELSE t
    IN  IF t = <<>> THEN JSInt(0)
        ELSE IF digits = <<>> \/ DigitsPrefix(digits) # digits THEN JSNaN
        ELSE IF Head(t) = "-" THEN JSInt(-DigitsToNat(digits))
        ELSE JSInt(DigitsToNat(digits))

Fields == {"householdSize", "income", "zipCode"}

\* The keys of the errors object: the fields, and submit.
ErrorKeys == Fields \cup {"submit"}

\* useState({}) of errors and of touched
NoErrors == [key \in ErrorKeys |-> JSUndefined]

NothingTouched == [field \in Fields |-> FALSE]

\* errors[name] is falsy: undefined, since the key is absent, or null or ''.
IsFalsy(error) == error.k \in {"undefined", "null"} \/ error = JSStr(<<>>)

\* The errors object the schema of createValidationSchema returns.
validationSchema(values) ==
    [key \in ErrorKeys |->
        CASE key = "householdSize" ->
                IF values.householdSize = <<>>
                THEN JSStr(<<"Please select your household size">>) ELSE JSUndefined
          [] key = "income" ->
                IF values.income = <<>>
                THEN JSStr(<<"Please enter your annual income">>)
                ELSE IF \/ ToNumber(values.income) = JSNaN
                        \/ ToNumber(values.income).n < 0
                THEN JSStr(<<"Please enter a valid income amount">>) ELSE JSUndefined
          [] key = "zipCode" ->
                IF values.zipCode = <<>>
                THEN JSStr(<<"Please enter your ZIP code">>)
                ELSE IF \/ Len(values.zipCode) # 5
                        \/ DigitsPrefix(values.zipCode) # values.zipCode
                THEN JSStr(<<"Please enter a valid 5-digit ZIP code">>)
                ELSE IF ~validateDCZipCode(JSStr(values.zipCode))
                THEN JSStr(<<"Please enter a valid D.C. ZIP code">>) ELSE JSUndefined
          [] OTHER -> JSUndefined]

\* validateField(name, value)
validateField(values, name, value) ==
    LET fieldErrors ==
            validationSchema([f \in Fields |-> IF f = name THEN value ELSE values[f]])
    IN  IF IsFalsy(fieldErrors[name]) THEN JSNull ELSE fieldErrors[name]

\* Object.keys(formErrors).filter(key => formErrors[key])
ErrorKeysOf(formErrors) == { key \in ErrorKeys : ~IsFalsy(formErrors[key]) }

\* The state of the hook when the component is mounted.
InitialForm(initialValues) ==
    [pc |-> "mounted", values |-> initialValues, errors |-> NoErrors,
     touched |-> NothingTouched, isSubmitting |-> FALSE, pending |-> 0,
     calls |-> 0]

\* handleChange of an input or select that is no number input.
handleChange(name, value) ==
    form' = [form EXCEPT
                !.values[name] = value,
                !.errors[name] = IF ~IsFalsy(form.errors[name]) /\ form.touched[name]
                                 THEN JSNull ELSE @]

\* handleBlur
handleBlur(name, value) ==
    form' = [form EXCEPT
                !.touched[name] = TRUE,
                !.errors[name] =
                    IF ~IsFalsy(validateField(form.values, name, value))
                    THEN validateField(form.values, name, value) ELSE @]

\* setFieldValue(name, value)
setFieldValue(name, value) == form' = [form EXCEPT !.values[name] = value]

\* setFieldError(name, error)
setFieldError(name, error) == form' = [form EXCEPT !.errors[name] = error]

\* handleSubmit when the schema reports an error: up to the return, and the
\* finally block.
SubmitRejected ==
    [form EXCEPT
        !.errors = validationSchema(form.values),
        !.touched = [f \in Fields |->
                        form.touched[f] \/ f \in ErrorKeysOf(validationSchema(form.values))],
        !.isSubmitting = FALSE]

\* handleSubmit when the schema reports no error: up to await
\* onSubmit(values), with the onSubmit call made.
SubmitAccepted ==
    [form EXCEPT !.errors = NoErrors, !.isSubmitting = TRUE,
                 !.pending = @ + 1, !.calls = @ + 1]

\* handleSubmit that calls onSubmit whatever the schema reports.
handleSubmitUnvalidated == form' = SubmitAccepted

\* handleSubmit(event), up to its return or its await.
handleSubmit ==
    form' = IF ErrorKeysOf(validationSchema(form.values)) # {}
            THEN SubmitRejected
            ELSE SubmitAccepted

\* An awaited onSubmit call has settled and handleSubmit runs on: the catch
\* block when it was rejected, and the finally block.
SubmitContinues(settled) ==
    form' = [form EXCEPT
                !.pending = @ - 1,
                !.isSubmitting = FALSE,
                !.errors = IF settled.kind = "threw" /\ settled.error.message # <<>>
                           THEN [NoErrors EXCEPT !.submit = JSStr(settled.error.message)]
                           ELSE @]

----------------------------------------------------------------------------
(* The hook used by a form whose onSubmit takes time: the handlers of the   *)
(* hook are called in any order, and an onSubmit call that is awaited       *)
(* settles later.  prev names the handler that ran last.                    *)

\* The largest number of onSubmit calls in the model.
MaxSubmitCalls == 2

\* initialValues of the form of GlassesFinder
EmptyFormValues == [householdSize |-> <<>>, income |-> <<>>, zipCode |-> <<>>]

\* Texts a field is given.
FieldTexts(name) ==
    CASE name = "householdSize" -> {<<>>, <<"1">>}
      [] name = "income" -> {<<>>, NatToStr(30000)}
      [] name = "zipCode" -> {<<>>, NatToStr(99999), NatToStr(20001)}

\* The ways an onSubmit call settles: resolved, or rejected with an Error
\* with or without a message.
SubmitOutcomes ==
    { Returned(JSUndefined), Threw(NewError(<<"Request failed">>)),
      Threw(NewError(<<>>)) }

MountForm ==
    /\ form.pc = "none"
    /\ form' = InitialForm(EmptyFormValues)
    /\ prev' = [kind |-> "mount"]
    /\ UNCHANGED <<cache, now, args, outcome, _glassesData, ui, retry>>

Change ==
    /\ form.pc = "mounted"
    /\ \E name \in Fields : \E value \in FieldTexts(name) :
          /\ handleChange(name, value)
          /\ prev' = [kind |-> "handleChange", name |-> name]
    /\ UNCHANGED <<cache, now, args, outcome, _glassesData, ui, retry>>

\* The blur event of a field carries the value the field shows.
Blur ==
    /\ form.pc = "mounted"
    /\ \E name \in Fields :
          /\ handleBlur(name, form.values[name])
          /\ prev' = [kind |-> "handleBlur", name |-> name]
    /\ UNCHANGED <<cache, now, args, outcome, _glassesData, ui, retry>>

Submit ==
    /\ form.pc = "mounted"
    /\ form.calls < MaxSubmitCalls
    /\ handleSubmit
    /\ prev' = [kind |-> "handleSubmit", calls |-> form.calls]
    /\ UNCHANGED <<cache, now, args, outcome, _glassesData, ui, retry>>

OnSubmitSettles ==
    /\ form.pc = "mounted"
    /\ form.pending > 0
    /\ \E settled \in SubmitOutcomes : SubmitContinues(settled)
    /\ prev' = [kind |-> "settled"]
    /\ UNCHANGED <<cache, now, args, outcome, _glassesData, ui, retry>>

SetFieldValue ==
    /\ form.pc = "mounted"
    /\ \E name \in {"zipCode"} : \E value \in FieldTexts(name) :
          /\ setFieldValue(name, value)
          /\ prev' = [kind |-> "setFieldValue", name |-> name]
    /\ UNCHANGED <<cache, now, args, outcome, _glassesData, ui, retry>>

SetFieldError ==
    /\ form.pc = "mounted"
    /\ \E name \in {"zipCode"} : \E error \in {JSStr(<<"Not accepted">>)} :
          /\ setFieldError(name, error)
          /\ prev' = [kind |-> "setFieldError", name |-> name]
    /\ UNCHANGED <<cache, now, args, outcome, _glassesData, ui, retry>>

NextHook ==
    \/ MountForm
    \/ Change
    \/ Blur
    \/ Submit
    \/ OnSubmitSettles
    \/ SetFieldValue
    \/ SetFieldError

SpecHook == Init /\ [][NextHook]_vars

\* handleSubmit is the handler that ran last.
SubmitJustHandled == form.pc = "mounted" /\ prev.kind = "handleSubmit"

\* C25: handleSubmit invokes onSubmit only when the validation schema
\* reports no error for the current values; when it reports an error,
\* onSubmit is not invoked, errors is what the schema reported and every
\* field with an error is touched.
C25_SubmitOnlyWhenValid ==
    SubmitJustHandled =>
        IF \A key \in ErrorKeys : IsFalsy(validationSchema(form.values)[key])
        THEN form.calls = prev.calls + 1
        ELSE /\ form.calls = prev.calls
             /\ form.errors = validationSchema(form.values)
             /\ \A field \in Fields :
                   ~IsFalsy(validationSchema(form.values)[field])
                       => form.touched[field]

\* handleSubmit has run on values whose zip code is no D.C. zip code, after
\* an earlier onSubmit call: onSubmit is not called again and the error of
\* the zip code is shown.
C25_Witness ==
    /\ SubmitJustHandled
    /\ form.values = [householdSize |-> <<"1">>, income |-> NatToStr(30000),
                      zipCode |-> NatToStr(99999)]
    /\ form.calls = 1
    /\ prev.calls = 1
    /\ form.errors.zipCode = JSStr(<<"Please enter a valid D.C. ZIP code">>)
    /\ form.touched.zipCode

\* C26: isSubmitting is true in every state in which an onSubmit call
\* started by handleSubmit is pending, also when handleSubmit was invoked
\* again before an earlier invocation completed, and it is false when no
\* invocation is pending.
C26_SubmittingWhilePending ==
    form.pc = "mounted" => (form.isSubmitting <=> form.pending > 0)

\* C30: field errors never go stale: when handleBlur has run on a field,
\* errors[field] is an error only if the validation schema reports an error
\* for the value the field has, whatever handlers were called before.
C30_NoStaleErrorAfterBlur ==
    (form.pc = "mounted" /\ prev.kind = "handleBlur") =>
        (~IsFalsy(form.errors[prev.name])
            => ~IsFalsy(validationSchema(form.values)[prev.name]))

----------------------------------------------------------------------------
(* formatEligibilityForComponent: the level shown for an eligibility        *)

\* federalPovertyLevel of formatEligibilityForComponent
federalPovertyLevel(size) == 15060 + (size - 1) * 5380

\* _createEligibilityResponse(level, message, color, programs); the programs
\* by their names.
_createEligibilityResponse(level, programs) ==
    [level |-> level, showPrograms |-> Len(programs) > 0, programs |-> programs]

\* formatEligibilityForComponent(eligibility) for an eligibility of
\* assessEligibility with a whole income and household size.  percentage
\* is (income / federalPovertyLevel) * 100, so percentage <= 200 is
\* income <= 2 * federalPovertyLevel.
formatEligibilityForComponent(eligibility) ==
    LET income == eligibility.annualIncome.n
        size == eligibility.householdSize.n
    IN  IF income <= 2 * federalPovertyLevel(size)
        THEN _createEligibilityResponse("High Assistance",
                <<"DC Medicaid Vision Benefits", "Warby Parker Pupils Project",
                  "Unity Health Care Vision Services",
                  "Lions Club SightFirst Program">>)
        ELSE IF income <= 4 * federalPovertyLevel(size)
        THEN _createEligibilityResponse("Moderate Assistance",
                <<"DC Health Link Vision Plans", "Walmart Vision Center">>)
        ELSE _createEligibilityResponse("Standard Options", <<>>)

\* Incomes at and next to the limits of the two classifications for a
\* household size.
IncomesAtLimits(size) ==
    LET medicaidLimit == MEDICAID_INCOME_LIMITS[Min(size, 8)]
    IN  { medicaidLimit, 2 * medicaidLimit, 3 * medicaidLimit,
          3 * medicaidLimit + 1,
          2 * federalPovertyLevel(size), 2 * federalPovertyLevel(size) + 1,
          4 * federalPovertyLevel(size), 4 * federalPovertyLevel(size) + 1 }

\* The eligibility of a household is formatted for the results screen.
FormatEligibility ==
    /\ \E size \in 1..15 : \E income \in IncomesAtLimits(size) :
          LET eligibility ==
                  NewEligibility(JSInt(size), JSInt(income), Str(20001), now)
          IN  /\ args' = [eligibility |-> eligibility]
              /\ outcome' = Returned(formatEligibilityForComponent(eligibility))
    /\ UNCHANGED <<cache, now, prev, _glassesData, ui, retry, form>>

NextFormat == FormatEligibility

SpecFormat == Init /\ [][NextFormat]_vars

\* C29: for every household size from 1 to 15 and every income, an
\* eligibility of the tier any_income is shown with the level 'Standard
\* Options': its income is above 400% of 15060 + (size - 1) * 5380.
C29_TopTierIsStandardOptions ==
    (outcome.kind = "returned" /\ args.eligibility.tier = "any_income") =>
        /\ outcome.value.level = "Standard Options"
        /\ args.eligibility.annualIncome.n >
              4 * (15060 + (args.eligibility.householdSize.n - 1) * 5380)

----------------------------------------------------------------------------
(* GlassesFinder as a whole: either component is mounted, the user goes     *)
(* from step to step, fills in the form, submits it and sets the filters    *)
(* of the results screen.  The refactored component submits through         *)
(* handleSubmit of the hook, whose onSubmit is handleFormSubmit.  After a    *)
(* submission prev holds the state the component had before it and the      *)
(* number of onSubmit calls made before it.                                 *)

\* The cache has room for the entries of two submissions.
FinderCacheSize == MaxCacheSize + 2

\* What the promise of handleFormSubmit settles with: the error thrown on
\* to the hook, or undefined.
SettledOnSubmit(try) ==
    IF try.caught.kind = "threw"
    THEN Threw(NewError(try.caught.error.message))
    ELSE Returned(JSUndefined)

\* The part of handleSubmit that follows a valid form: onSubmit is called
\* and has settled with `settled`, having left the component as `try` says.
OnSubmitOfFinder(try, settled) ==
    /\ Cardinality(DOMAIN try.cache) <= FinderCacheSize
    /\ args' = [e |-> "submit"]
    /\ cache' = try.cache
    /\ ui' = [try.ui EXCEPT !.isLoading = FALSE]
    /\ outcome' = settled
    /\ form' = [SubmitAccepted EXCEPT
                   !.pending = 0,
                   !.isSubmitting = FALSE,
                   !.errors =
                       IF settled.kind = "threw" /\ settled.error.message # <<>>
                       THEN [NoErrors EXCEPT !.submit = JSStr(settled.error.message)]
                       ELSE NoErrors]
    /\ UNCHANGED <<now, _glassesData, retry>>

\* handleSubmit of the hook with handleFormSubmit as onSubmit, which has no
\* await: the call is made and settles, and handleSubmit runs to its end,
\* before another event is handled.
handleSubmitOfFinder ==
    IF ErrorKeysOf(validationSchema(form.values)) # {}
    THEN /\ form' = SubmitRejected
         /\ UNCHANGED <<cache, now, args, outcome, _glassesData, ui, retry>>
    ELSE LET try == SubmitTry(form.values)
         IN  OnSubmitOfFinder(try, SettledOnSubmit(try))

\* Texts typed into the fields of the refactored form and options chosen
\* in the dropdown form, which offers neither a blank income nor the zip
\* code 99999.
FinderTexts(name) ==
    CASE name = "householdSize" -> {<<>>, <<"1">>}
      [] name = "income" -> {<<>>, <<" ">>, NatToStr(20000), NatToStr(62500)}
      [] name = "zipCode" -> {<<>>, NatToStr(20001), NatToStr(99999)}
      [] name = "budget" -> {"", "under50"}

MountFinder ==
    /\ ui.component = "none"
    /\ \E component \in Components :
          /\ ui' = InitialState(component)
          /\ form' = IF component = "refactored"
                     THEN InitialForm(EmptyFormValues) ELSE form
    /\ prev' = [kind |-> "event"]
    /\ UNCHANGED <<cache, now, args, outcome, _glassesData, retry>>

\* The buttons that lead from one step to another.
Navigate ==
    /\ ui.component # "none"
    /\ \E step \in {"welcome", "form"} :
          /\ \/ ui.currentStep = "welcome" /\ step = "form"
             \/ ui.currentStep = "form" /\ step = "welcome"
             \/ ui.currentStep = "results" /\ step = "form"
          /\ setCurrentStep(step)
    /\ prev' = [kind |-> "event"]

\* A field of the refactored form is changed.
EditField ==
    /\ ui.component = "refactored"
    /\ ui.currentStep = "form"
    /\ \E name \in Fields : \E value \in FinderTexts(name) :
          handleChange(name, value)
    /\ prev' = [kind |-> "event"]
    /\ UNCHANGED <<cache, now, args, outcome, _glassesData, ui, retry>>

\* A field of the refactored form loses the focus.
BlurField ==
    /\ ui.component = "refactored"
    /\ ui.currentStep = "form"
    /\ \E name \in Fields : handleBlur(name, form.values[name])
    /\ prev' = [kind |-> "event"]
    /\ UNCHANGED <<cache, now, args, outcome, _glassesData, ui, retry>>

\* The refactored form is submitted; the browser submits it only when no
\* required field is empty.
SubmitFinderForm ==
    /\ ui.component = "refactored"
    /\ ui.currentStep = "form"
    /\ \A name \in Fields : form.values[name] # <<>>
    /\ form.calls < MaxSubmitCalls
    /\ handleSubmitOfFinder
    /\ prev' = [kind |-> "submit", ui |-> ui, calls |-> form.calls]

\* An option of the dropdown form is chosen.
ChooseOption ==
    /\ ui.component = "dropdown"
    /\ ui.currentStep = "form"
    /\ \E name \in DOMAIN ui.formData : \E value \in FinderTexts(name) :
          /\ name = "income" => value # <<" ">>
          /\ name = "zipCode" => value # NatToStr(99999)
          /\ setFormData(name, value)
    /\ prev' = [kind |-> "event"]

\* The dropdown form is submitted; the browser submits it only when every
\* required select has an option chosen.
SubmitDropdownForm ==
    /\ ui.component = "dropdown"
    /\ ui.currentStep = "form"
    /\ RequiredSelected(ui.formData)
    /\ handleFormSubmitDropdown
    /\ prev' = [kind |-> "submit", ui |-> ui, calls |-> 0]

\* A filter of the results screen is set.
ChangeFilter ==
    /\ ui.component # "none"
    /\ ui.currentStep = "results"
    /\ \/ \E value \in {"all", "under50"} : handleFilterChange("priceRange", value)
       \/ \E value \in {AllStyles, RoundStyle} : handleFilterChange("frameStyle", value)
    /\ prev' = [kind |-> "event"]

NextFinder ==
    \/ MountFinder
    \/ Navigate
    \/ EditField
    \/ BlurField
    \/ SubmitFinderForm
    \/ ChooseOption
    \/ SubmitDropdownForm
    \/ ChangeFilter

SpecFinder == Init /\ [][NextFinder]_vars

\* C27: in every state of GlassesFinder, when currentStep is 'results' the
\* eligibility and the recommendations are both there, and whenever both are
\* there they are of the same tier, as they stem from the same submission.
C27_ResultsAreConsistent ==
    ui.component # "none" =>
        /\ ui.currentStep = "results" =>
              (ui.eligibilityData # JSNull /\ ui.recommendations # JSNull)
        /\ (ui.eligibilityData # JSNull /\ ui.recommendations # JSNull) =>
              ui.recommendations.tier = ui.eligibilityData.tier

\* The results of a second submission are shown, of another tier than those
\* of the submission before.
C27_Witness ==
    /\ prev.kind = "submit"
    /\ prev.ui.recommendations # JSNull
    /\ ui.currentStep = "results"
    /\ prev.ui.recommendations.tier = "medicaid_eligible"
    /\ ui.recommendations.tier = "any_income"
    /\ ui.eligibilityData.tier = "any_income"

\* The form was submitted last and the assessment of the submission failed:
\* handleFormSubmit was called and threw, or showed an alert.
AssessmentFailed ==
    /\ prev.kind = "submit"
    /\ \/ /\ ui.component = "refactored"
          /\ form.calls = prev.calls + 1
          /\ outcome.kind = "threw"
       \/ /\ ui.component = "dropdown"
          /\ outcome.kind = "alert"

\* C28: a submission whose assessment fails leaves the state of the finder
\* as it was: eligibilityData, recommendations, the filters and currentStep
\* have the values they had before the submission, and only the error is
\* reported.
C28_FailedSubmissionKeepsState ==
    AssessmentFailed =>
        /\ ui.eligibilityData = prev.ui.eligibilityData
        /\ ui.recommendations = prev.ui.recommendations
        /\ ui.filters = prev.ui.filters
        /\ ui.currentStep = prev.ui.currentStep
        /\ ui.component = "refactored" =>
              form.errors.submit = JSStr(outcome.error.message)

\* After a submission that led to results, the form is submitted with a
\* blank income: the assessment fails, the results are kept and the error
\* is shown in the form.
C28_Witness ==
    /\ AssessmentFailed
    /\ ui.component = "refactored"
    /\ form.values.income = <<" ">>
    /\ ui.recommendations # JSNull
    /\ ui.currentStep = "form"
    /\ form.errors.submit = JSStr(AnnualIncomeMessage)

============================================================================
